---- MODULE Spec2Model ----
(***************************************************************************)
(* Model of the domain cache-consistency and quota subsystem of doclink:   *)
(* the relational store (src/app/db/database.py), the per-user Redis keys  *)
(* and the endpoints that change them (src/app/api/endpoints.py).          *)
(*                                                                         *)
(* A Redis key is modelled as a set holding zero values (key absent) or    *)
(* one value (the value stored under the key).  A content row and the      *)
(* embedding of that row are both named by [file_id, unit]; the rows a     *)
(* query returns are modelled as a set (SQL gives them no order).          *)
(***************************************************************************)
EXTENDS Integers, FiniteSets, Sequences, TLC

\* ------------------------------------------------------------------ bounds
MaxFiles == 1          \* file ids issued by upload_files in one behaviour
MaxUnits == 2          \* sentences extracted from one uploaded file
MaxDomains == 1        \* domain ids issued by create_domain in one behaviour
GuideUnits == 1        \* rows of default_content copied into "User Guide.pdf"
Headroom == 2          \* SpecQuota starts at most this many files below the ceiling
MaxRaceFiles == 2      \* file ids issued by the concurrent requests of SpecRace
MaxTime == 3           \* the clock runs from 0 to MaxTime
MaxAsks == 2           \* questions admitted beyond the free ceiling
MaxQueries == 2        \* questions put by the asking worker of SpecQueryRace
BatchFiles == 2        \* file ids issued by the commits of SpecCommit

\* ------------------------------------------------------- program constants
FreeFileLimit == 10
PremiumFileLimit == 100
FreeDomainLimit == 3
PremiumDomainLimit == 10
PremiumDomainMessageLimit == 20
FreeQuestionLimit == 25
\* INTERVAL '24 hours', the clock ticking every 12 hours
Day == 2

Users == {"u1", "u2"}
Workers == {"w1", "w2"}               \* the concurrent requests of SpecRace
\* the requests a worker serves in the specifications that pair requests
Uploaders == {"w1"}
Deleters == {"w2"}
Askers == {"w2"}
Actors == {"u1"}                      \* the users whose requests Spec runs
FileNames == {"a.pdf", "b.pdf"}
KeyOrder == [n \in FileNames |-> IF n = "a.pdf" THEN 1 ELSE 2]
\* read_file is a function of the file: the sentences it extracts from the
\* document of each name
Sentences(name) ==
    IF name = "a.pdf" THEN 1 ELSE IF name = "b.pdf" THEN MaxUnits ELSE 0
\* what a client can send: the document of a name, or empty bytes or a
\* document without text under that name
Uploads ==
    UNION {{[name |-> n, sentences |-> k] : k \in {0, Sentences(n)}} :
              n \in FileNames}
GuideName == "User Guide.pdf"
DomainNames == {"My First Folder"}
Tiers == {"free", "premium"}
Sessions == {"s1", "s2"}
\* where an insert of insert_file_batches raises, if it does
Fails == {"none", "info", "content"}
Times == 0 .. MaxTime

VARIABLES
    user_info,          \* user_info.user_type, by user id
    domain_info,        \* rows of table domain_info
    file_info,          \* rows of table file_info
    file_content,       \* rows of table file_content
    selected_domain,    \* Redis key user:{id}:selected_domain, by user
    domain_content,     \* Redis key user:{id}:domain_content, by user
    domain_embeddings,  \* Redis key user:{id}:domain_embeddings, by user
    upload,             \* Redis keys user:{id}:upload:{filename}, by user and name
    next_file_id,       \* the next fresh file id (uuid4 never repeats)
    next_domain_id,     \* the next fresh domain id
    issued,             \* how many file ids this behaviour has issued
    last,               \* the last request served and what it answered
    pc,                 \* where each concurrent request stands, by worker
    req,                \* the local variables of each concurrent request
    session_info,       \* rows of table session_info
    now,                \* CURRENT_TIMESTAMP
    asked               \* history: the questions admitted, by user and time

store == <<user_info, domain_info, file_info, file_content>>
cache == <<selected_domain, domain_content, domain_embeddings, upload>>
vars == <<user_info, domain_info, file_info, file_content, selected_domain,
          domain_content, domain_embeddings, upload, next_file_id,
          next_domain_id, issued, last, pc, req, session_info, now, asked>>
workers == <<pc, req>>
questions == <<session_info, now, asked>>

\* ----------------------------------------------------------------- helpers
Range(f) == {f[x] : x \in DOMAIN f}

\* the file ids named by a set of content (or embedding) rows
FileIdsOf(rows) == {r.file_id : r \in rows}

\* the file ids named by the value under a cache key (none when absent)
KeyFileIds(key) == UNION {FileIdsOf(v) : v \in key}

DefaultDomain(u) == IF u = "u1" THEN 1 ELSE 2

\* what a request answered; every action sets last to one of these
Answer(op, u) ==
    [op |-> op, user |-> u, status |-> "success", success |-> 1]

\* ------------------------------------------------------------- Database
\* The committed tables as one value: what a "with Database() as db" block
\* reads, and (changed) what it commits.
DB == [user_info |-> user_info, domain_info |-> domain_info,
       file_info |-> file_info, file_content |-> file_content]

\* the tables become those of db
Commit(db) ==
    /\ user_info' = db.user_info
    /\ domain_info' = db.domain_info
    /\ file_info' = db.file_info
    /\ file_content' = db.file_content

\* the file query with "WHERE domain_id = %s" alone
get_file_info_with_domain_AnyOwner(db, user_id, domain_id) ==
    {f \in db.file_info : f.domain_id = domain_id}

get_file_info_with_domain(db, user_id, domain_id) ==
    {f \in db.file_info : f.user_id = user_id /\ f.domain_id = domain_id}

\* get_domain_info with "WHERE domain_id = %s" only
get_domain_info_AnyOwner(db, user_id, domain_id) ==
    {d \in db.domain_info : d.domain_id = domain_id}

get_domain_info(db, user_id, domain_id) ==
    {d \in db.domain_info : d.user_id = user_id /\ d.domain_id = domain_id}

\* get_file_content with "WHERE file_id = <one of the ids>" for "IN <ids>"
get_file_content_OneFile(db, file_ids, readok) ==
    LET one == {f \in file_ids : \A g \in file_ids : f <= g}
        rows == {[file_id |-> c.file_id, unit |-> c.unit] :
                    c \in {x \in db.file_content : x.file_id \in one}}
    IN  IF readok /\ rows # {}
        THEN [content |-> {rows}, embeddings |-> {rows}]
        ELSE [content |-> {}, embeddings |-> {}]

\* readok = FALSE: a DatabaseError or other exception inside the method,
\* which it swallows and answers (None, None)
get_file_content(db, file_ids, readok) ==
    LET rows == {[file_id |-> c.file_id, unit |-> c.unit] :
                    c \in {x \in db.file_content : x.file_id \in file_ids}}
    IN  IF readok /\ rows # {}
        THEN [content |-> {rows}, embeddings |-> {rows}]
        ELSE [content |-> {}, embeddings |-> {}]

\* the three cache keys update_selected_domain works on, for one user
CacheOf(u) ==
    [selected_domain |-> selected_domain[u],
     domain_content |-> domain_content[u],
     domain_embeddings |-> domain_embeddings[u]]

\* ---------------------------------------------- update_selected_domain
\* "Clear any existing domain data": deletes domain_content and the index,
\* index_header and boost_info keys.  No code of the repository writes the
\* three index keys, so they are always absent and are not modelled; the
\* domain_embeddings key is not among the keys deleted.
ClearDomainData(c) == [c EXCEPT !.domain_content = {}]

\* update_selected_domain with a shortcut for a domain that is already the
\* selected one and has its content cached: nothing is read or returned
update_selected_domain_CacheHit(c, db, user_id, domain_id, readok) ==
    LET c1 == [c EXCEPT !.selected_domain = {domain_id}]
        fi == get_file_info_with_domain(db, user_id, domain_id)
        got == get_file_content(db, FileIdsOf(fi), readok)
    IN  IF c.selected_domain = {domain_id} /\ c.domain_content # {}
        THEN [cache |-> c, file_names |-> {}, file_ids |-> {}, success |-> 1]
        ELSE IF fi = {}
        THEN [cache |-> ClearDomainData(c1),
              file_names |-> {}, file_ids |-> {}, success |-> 1]
        ELSE IF got.content = {} \/ got.embeddings = {}
        THEN [cache |-> ClearDomainData(c1),
              file_names |-> {}, file_ids |-> {}, success |-> 0]
        ELSE [cache |-> [c1 EXCEPT !.domain_content = got.content,
                                   !.domain_embeddings = got.embeddings],
              file_names |-> {f.file_name : f \in fi},
              file_ids |-> FileIdsOf(fi), success |-> 1]

\* update_selected_domain(user_id, domain_id) on cache keys c and tables db:
\* the keys it leaves and the (file_names, file_ids, success) it returns.
update_selected_domain(c, db, user_id, domain_id, readok) ==
    LET c1 == [c EXCEPT !.selected_domain = {domain_id}]
        fi == get_file_info_with_domain(db, user_id, domain_id)
        got == get_file_content(db, FileIdsOf(fi), readok)
    IN  IF fi = {}
        THEN [cache |-> ClearDomainData(c1),
              file_names |-> {}, file_ids |-> {}, success |-> 1]
        ELSE IF got.content = {} \/ got.embeddings = {}
        THEN [cache |-> ClearDomainData(c1),
              file_names |-> {}, file_ids |-> {}, success |-> 0]
        ELSE [cache |-> [c1 EXCEPT !.domain_content = got.content,
                                   !.domain_embeddings = got.embeddings],
              file_names |-> {f.file_name : f \in fi},
              file_ids |-> FileIdsOf(fi), success |-> 1]

\* the cache keys of user u become those of record c
SetCache(u, c) ==
    /\ selected_domain' = [selected_domain EXCEPT ![u] = c.selected_domain]
    /\ domain_content' = [domain_content EXCEPT ![u] = c.domain_content]
    /\ domain_embeddings' = [domain_embeddings EXCEPT ![u] = c.domain_embeddings]

IssuedDomains == 1 .. (next_domain_id - 1)
IssuedFiles == 1 .. (next_file_id - 1)

\* ---------------------------------------------------------- Quota Ledger
get_user_total_file_count(db, user_id) ==
    [file_count |-> Cardinality({f \in db.file_info : f.user_id = user_id}),
     user_type |-> db.user_info[user_id]]

\* the ceiling tests with >= for >
FileQuotaExceeded_AtCeiling(user_type, file_count, batch) ==
    \/ user_type = "free" /\ file_count + batch >= FreeFileLimit
    \/ user_type = "premium" /\ file_count + batch >= PremiumFileLimit

\* the two ceiling tests of insert_file_batches
FileQuotaExceeded(user_type, file_count, batch) ==
    \/ user_type = "free" /\ file_count + batch > FreeFileLimit
    \/ user_type = "premium" /\ file_count + batch > PremiumFileLimit

\* a rollback that keeps what the transaction had written
RollbackBatch_Partial(db0, db1) == db1

\* self.conn.rollback(): the tables are those before the transaction (db0),
\* whatever the transaction had written (db1)
RollbackBatch(db0, db1) == db0

\* insert_file_batches: the answer and the tables as the transaction leaves
\* them (the caller commits).  fail names the insert that raises: the
\* method then rolls back and returns False (raised), which its caller
\* cannot subscript.
insert_file_batches(db, file_info_batch, file_content_batch, fail) ==
    LET user_id == (CHOOSE f \in file_info_batch : TRUE).user_id
        cnt == get_user_total_file_count(db, user_id)
        db1 == [db EXCEPT !.file_info = @ \cup file_info_batch]
        db2 == [db1 EXCEPT !.file_content = @ \cup file_content_batch]
    IN  IF FileQuotaExceeded(cnt.user_type, cnt.file_count,
                             Cardinality(file_info_batch))
        THEN [raised |-> FALSE, success |-> FALSE,
              file_count |-> cnt.file_count, db |-> db]
        ELSE IF fail = "info"
        THEN [raised |-> TRUE, success |-> FALSE,
              file_count |-> cnt.file_count, db |-> RollbackBatch(db, db)]
        ELSE IF fail = "content"
        THEN [raised |-> TRUE, success |-> FALSE,
              file_count |-> cnt.file_count, db |-> RollbackBatch(db, db1)]
        ELSE [raised |-> FALSE, success |-> TRUE,
              file_count |-> cnt.file_count, db |-> db2]

\* clear_file_content: both deletes, and 1 when a file_info row went
clear_file_content(db, file_id) ==
    [ret |-> IF \E f \in db.file_info : f.file_id = file_id THEN 1 ELSE 0,
     db |-> [db EXCEPT
               !.file_content = {c \in @ : c.file_id # file_id},
               !.file_info = {f \in @ : f.file_id # file_id}]]

\* delete_domain answering -1 for the default domain after deleting its files
db_delete_domain_Emptying(db, domain_id) ==
    LET rows == {d \in db.domain_info : d.domain_id = domain_id}
        file_ids == {f.file_id : f \in {x \in db.file_info :
                                           x.domain_id = domain_id}}
        emptied == [db EXCEPT
                      !.file_content = {c \in @ : c.file_id \notin file_ids},
                      !.file_info = {f \in @ : f.domain_id # domain_id}]
    IN  IF rows = {}
        THEN [raised |-> TRUE, ret |-> 0, db |-> db]
        ELSE IF \E d \in rows : d.domain_type = 0
        THEN [raised |-> FALSE, ret |-> -1, db |-> emptied]
        ELSE [raised |-> FALSE, ret |-> 1,
              db |-> [emptied EXCEPT
                        !.domain_info = {d \in @ : d.domain_id # domain_id}]]

\* delete_domain without delete_content_query
db_delete_domain_NoCascade(db, domain_id) ==
    LET rows == {d \in db.domain_info : d.domain_id = domain_id}
    IN  IF rows = {}
        THEN [raised |-> TRUE, ret |-> 0, db |-> db]
        ELSE IF \E d \in rows : d.domain_type = 0
        THEN [raised |-> FALSE, ret |-> -1, db |-> db]
        ELSE [raised |-> FALSE, ret |-> 1,
              db |-> [db EXCEPT
                        !.file_info = {f \in @ : f.domain_id # domain_id},
                        !.domain_info = {d \in @ : d.domain_id # domain_id}]]

\* delete_domain without the domain_type test
db_delete_domain_Unprotected(db, domain_id) ==
    LET rows == {d \in db.domain_info : d.domain_id = domain_id}
        file_ids == {f.file_id : f \in {x \in db.file_info :
                                           x.domain_id = domain_id}}
    IN  IF rows = {}
        THEN [raised |-> TRUE, ret |-> 0, db |-> db]
        ELSE [raised |-> FALSE, ret |-> 1,
              db |-> [db EXCEPT
                        !.file_content = {c \in @ : c.file_id \notin file_ids},
                        !.file_info = {f \in @ : f.domain_id # domain_id},
                        !.domain_info = {d \in @ : d.domain_id # domain_id}]]

\* Database.delete_domain: -1 protected, 1 deleted (0 when the last delete
\* matched no row); raises when no domain_info row has the id, since the
\* fetched row is then None and None[0] is a TypeError
db_delete_domain(db, domain_id) ==
    LET rows == {d \in db.domain_info : d.domain_id = domain_id}
        file_ids == {f.file_id : f \in {x \in db.file_info :
                                           x.domain_id = domain_id}}
    IN  IF rows = {}
        THEN [raised |-> TRUE, ret |-> 0, db |-> db]
        ELSE IF \E d \in rows : d.domain_type = 0
        THEN [raised |-> FALSE, ret |-> -1, db |-> db]
        ELSE [raised |-> FALSE, ret |-> 1,
              db |-> [db EXCEPT
                        !.file_content = {c \in @ : c.file_id \notin file_ids},
                        !.file_info = {f \in @ : f.domain_id # domain_id},
                        !.domain_info = {d \in @ : d.domain_id # domain_id}]]

\* Database.rename_domain: rows_affected > 0
db_rename_domain(db, domain_id, new_name) ==
    [ret |-> \E d \in db.domain_info : d.domain_id = domain_id,
     db |-> [db EXCEPT !.domain_info =
               {IF d.domain_id = domain_id
                THEN [d EXCEPT !.domain_name = new_name] ELSE d : d \in @}]]

\* the ceiling tests with > for >=
DomainQuotaReached_Above(user_type, domain_count) ==
    \/ user_type = "free" /\ domain_count > FreeDomainLimit
    \/ user_type = "premium" /\ domain_count > PremiumDomainLimit

\* the two ceiling tests of create_domain
DomainQuotaReached(user_type, domain_count) ==
    \/ user_type = "free" /\ domain_count >= FreeDomainLimit
    \/ user_type = "premium" /\ domain_count >= PremiumDomainLimit

\* the numbers the rejection message of create_domain states: no count, and
\* the ceiling its text names
DomainQuotaMessage(user_type) ==
    [count |-> {},
     ceiling |-> IF user_type = "free" THEN {FreeDomainLimit}
                 ELSE {PremiumDomainMessageLimit}]

\* Database.create_domain; raises when the user owns no domain, since the
\* count query then returns no row and result[0] is an IndexError
db_create_domain(db, user_id, domain_name, domain_id, domain_type) ==
    LET domain_count == Cardinality({d \in db.domain_info :
                                       d.user_id = user_id})
    IN  IF domain_count = 0
        THEN [raised |-> TRUE, success |-> FALSE, db |-> db]
        ELSE IF DomainQuotaReached(db.user_info[user_id], domain_count)
        THEN [raised |-> FALSE, success |-> FALSE, db |-> db,
              message |-> DomainQuotaMessage(db.user_info[user_id])]
        ELSE [raised |-> FALSE, success |-> TRUE,
              db |-> [db EXCEPT !.domain_info = @ \cup
                        {[domain_id |-> domain_id, user_id |-> user_id,
                          domain_name |-> domain_name,
                          domain_type |-> domain_type]}]]

\* the staged file names of user u
StagedNames(u) == {n \in FileNames : upload[u][n] # {}}

\* one uuid4 call before the loop: every staged name gets the same file id
FreshIds_Same(names) == [n \in names |-> next_file_id]

\* uuid4 gives each staged name a fresh file id of its own: the ids from
\* next_file_id on, in the order the keys are listed
FreshIds(names) ==
    [n \in names |->
        next_file_id + Cardinality({m \in names : KeyOrder[m] < KeyOrder[n]})]

\* the batches upload_files builds from staged entries (name -> sentences)
\* once each has its file id; each sentence is encrypted with auth_data = its
\* file id
FileInfoBatch(u, d, ids) ==
    {[file_id |-> ids[n], user_id |-> u, domain_id |-> d, file_name |-> n] :
        n \in DOMAIN ids}

\* every sentence of the batch encrypted under the id of the first file
FileContentBatch_OneKey(entries, ids) ==
    UNION {{[file_id |-> ids[n], unit |-> k,
             auth_data |-> ids[CHOOSE m \in DOMAIN ids :
                                  \A x \in DOMAIN ids : ids[m] <= ids[x]]] :
              k \in 1 .. entries[n]} : n \in DOMAIN ids}

FileContentBatch(entries, ids) ==
    UNION {{[file_id |-> ids[n], unit |-> k, auth_data |-> ids[n]] :
              k \in 1 .. entries[n]} : n \in DOMAIN ids}

\* the staged entries of user u: name -> number of sentences
StagedEntries(u) ==
    [n \in StagedNames(u) |-> CHOOSE x \in upload[u][n] : TRUE]

\* ------------------------------------------------------------ endpoints
\* POST /qa/select_domain
select_domain(u, d, readok) ==
    LET r == update_selected_domain(CacheOf(u), DB, u, d, readok)
    IN  /\ SetCache(u, r.cache)
        /\ last' = [Answer("select_domain", u) EXCEPT
                      !.success = r.success,
                      !.status = IF r.success = 1 THEN "success" ELSE "rejected"]
        /\ UNCHANGED <<store, upload, next_file_id, next_domain_id, issued>>

\* a store_file whose staging key leaves out the user id
store_file_AnyUser(u, file) ==
    /\ IF file.sentences = 0
       THEN /\ UNCHANGED upload
            /\ last' = [Answer("store_file", u) EXCEPT !.status = "rejected"]
       ELSE /\ upload' = [v \in Users |->
                            [upload[v] EXCEPT ![file.name] = {file.sentences}]]
            /\ last' = Answer("store_file", u)
    /\ UNCHANGED <<store, selected_domain, domain_content, domain_embeddings,
                   next_file_id, next_domain_id, issued>>

\* a store_file that stages the entry before it answers 400
store_file_StageEmpty(u, file) ==
    /\ upload' = [upload EXCEPT ![u][file.name] = {file.sentences}]
    /\ last' = [Answer("store_file", u) EXCEPT
                  !.status = IF file.sentences = 0 THEN "rejected"
                             ELSE "success"]
    /\ UNCHANGED <<store, selected_domain, domain_content, domain_embeddings,
                   next_file_id, next_domain_id, issued>>

\* POST /io/store_file (store_drive_file and store_url stage the same way)
store_file(u, file) ==
    /\ IF file.sentences = 0
       THEN /\ UNCHANGED upload
            /\ last' = [Answer("store_file", u) EXCEPT !.status = "rejected"]
       ELSE /\ upload' = [upload EXCEPT ![u][file.name] = {file.sentences}]
            /\ last' = Answer("store_file", u)
    /\ UNCHANGED <<store, selected_domain, domain_content, domain_embeddings,
                   next_file_id, next_domain_id, issued>>

\* POST /io/upload_files
upload_files(u, readok, fail) ==
    LET sel == selected_domain[u]
        names == StagedNames(u)
        ans == Answer("upload_files", u)
    IN
    /\ IF sel = {} \/ \A d \in sel : get_domain_info(DB, u, d) = {}
       THEN /\ last' = [ans EXCEPT !.status = "invalid domain"]
            /\ UNCHANGED <<store, cache, next_file_id, next_domain_id, issued>>
       ELSE IF names = {}
       THEN /\ last' = [ans EXCEPT !.status = "no files"]
            /\ UNCHANGED <<store, cache, next_file_id, next_domain_id, issued>>
       ELSE \E d \in sel :
            LET ids == FreshIds(names)
                res == insert_file_batches(DB, FileInfoBatch(u, d, ids),
                                  FileContentBatch(StagedEntries(u), ids), fail)
                \* the republish reads the tables the commit has left
                r == update_selected_domain(CacheOf(u), res.db, u, d, readok)
            IN
            /\ res.success => issued + Cardinality(names) <= MaxFiles
            \* every staged key is deleted inside the loop, before the insert
            /\ upload' = [upload EXCEPT ![u] = [n \in FileNames |-> {}]]
            /\ IF res.raised
               THEN \* the TypeError leaves the with block: __exit__ rolls back
                    /\ Commit(res.db)
                    /\ last' = [ans EXCEPT !.status = "error", !.success = 0]
                    /\ UNCHANGED <<selected_domain, domain_content,
                                   domain_embeddings, next_file_id,
                                   next_domain_id, issued>>
               ELSE IF ~res.success
               THEN /\ last' = [ans EXCEPT !.status = "quota", !.success = 0]
                    /\ UNCHANGED <<store, selected_domain, domain_content,
                                   domain_embeddings, next_file_id,
                                   next_domain_id, issued>>
               ELSE /\ Commit(res.db)
                    /\ next_file_id' = next_file_id + Cardinality(names)
                    /\ issued' = issued + Cardinality(names)
                    /\ UNCHANGED next_domain_id
                    /\ SetCache(u, r.cache)
                    /\ last' = [ans EXCEPT
                                  !.status = IF r.success = 1 THEN "success"
                                             ELSE "not updated",
                                  !.success = r.success]
\* POST /db/remove_file_upload
remove_file_upload(u, file_id, domain_id) ==
    LET res == clear_file_content(DB, file_id)
        r == update_selected_domain(CacheOf(u), res.db, u, domain_id, TRUE)
        ans == Answer("remove_file_upload", u)
    IN  IF res.ret = 0
        THEN /\ last' = [ans EXCEPT !.status = "rejected", !.success = 0]
             /\ UNCHANGED <<store, cache, next_file_id, next_domain_id, issued>>
        ELSE /\ Commit(res.db)
             /\ SetCache(u, r.cache)
             /\ last' = [ans EXCEPT !.success = r.success]
             /\ UNCHANGED <<upload, next_file_id, next_domain_id, issued>>

\* POST /db/delete_domain: the request names a domain id and no user
delete_domain(u, domain_id) ==
    LET res == db_delete_domain(DB, domain_id)
        ans == Answer("delete_domain", u)
    IN  /\ IF res.raised
           THEN /\ last' = [ans EXCEPT !.status = "error", !.success = 0]
                /\ UNCHANGED store
           ELSE IF res.ret <= 0
           THEN \* the return leaves the with block: __exit__ commits
                /\ last' = [ans EXCEPT !.status = "rejected",
                                       !.success = res.ret]
                /\ Commit(res.db)
           ELSE /\ Commit(res.db)
                /\ last' = ans
        /\ UNCHANGED <<cache, next_file_id, next_domain_id, issued>>

\* POST /db/rename_domain
rename_domain(u, domain_id, new_name) ==
    LET res == db_rename_domain(DB, domain_id, new_name)
        ans == Answer("rename_domain", u)
    IN  /\ IF res.ret
           THEN Commit(res.db) /\ last' = ans
           ELSE /\ UNCHANGED store
                /\ last' = [ans EXCEPT !.status = "rejected", !.success = 0]
        /\ UNCHANGED <<cache, next_file_id, next_domain_id, issued>>

\* POST /db/create_domain
create_domain(u, domain_name) ==
    LET res == db_create_domain(DB, u, domain_name, next_domain_id, 1)
        ans == Answer("create_domain", u)
    IN  /\ res.success => next_domain_id <= MaxDomains + Cardinality(Users)
        /\ IF res.raised
           THEN /\ last' = [ans EXCEPT !.status = "error", !.success = 0]
                /\ UNCHANGED <<store, next_domain_id>>
           ELSE IF ~res.success
           THEN /\ last' = [ans EXCEPT !.status = "rejected", !.success = 0]
                /\ UNCHANGED <<store, next_domain_id>>
           ELSE /\ Commit(res.db)
                /\ next_domain_id' = next_domain_id + 1
                /\ last' = ans
        /\ UNCHANGED <<cache, next_file_id, issued>>

\* ------------------------------------------------------------------ Init
\* Every user has made the first visit: chat_page has created the default
\* domain (domain_type 0) and insert_user_guide has put the guide in it.
GuideFile(u) ==
    [file_id |-> DefaultDomain(u), user_id |-> u,
     domain_id |-> DefaultDomain(u), file_name |-> GuideName]

InitStore(types) ==
    /\ user_info = types
    /\ domain_info = {[domain_id |-> DefaultDomain(u), user_id |-> u,
                       domain_name |-> "My First Folder", domain_type |-> 0] :
                      u \in Users}
    /\ file_info = {GuideFile(u) : u \in Users}
    /\ file_content = {[file_id |-> DefaultDomain(u), unit |-> k,
                        auth_data |-> DefaultDomain(u)] :
                       u \in Users, k \in 1 .. GuideUnits}
    /\ next_file_id = Cardinality(Users) + 1
    /\ next_domain_id = Cardinality(Users) + 1
    /\ issued = 0

InitCache ==
    /\ selected_domain = [u \in Users |-> {}]
    /\ domain_content = [u \in Users |-> {}]
    /\ domain_embeddings = [u \in Users |-> {}]
    /\ upload = [u \in Users |-> [n \in FileNames |-> {}]]
    /\ last = Answer("init", "u1")

\* no concurrent request is under way
Idle == [user |-> "u1", sel |-> {}, keys |-> {}, key |-> {}, entry |-> {},
         info |-> {}, content |-> {}, fi |-> {}, got |-> {}, success |-> 1,
         session |-> "s1", daily |-> {}, op |-> "upload_files",
         embeddings |-> {}, file_ids |-> {}]

InitWorkers ==
    /\ pc = [w \in Workers |-> "idle"]
    /\ req = [w \in Workers |-> Idle]

\* nobody has a session yet
InitSessions ==
    /\ session_info = {}
    /\ now = 0
    /\ asked = [u \in Users |-> [t \in Times |-> 0]]

Init ==
    /\ InitStore([u \in Users |-> IF u = "u1" THEN "free" ELSE "premium"])
    /\ InitCache
    /\ InitWorkers
    /\ InitSessions

\* The ids a user's client can name: those of the domains and files the user
\* has owned (ids are never reused, so these include deleted ones).
KnownDomains(u) ==
    {d \in IssuedDomains : d = DefaultDomain(u) \/ d > Cardinality(Users)}
KnownFiles(u) ==
    {f \in IssuedFiles : f = DefaultDomain(u) \/ f > Cardinality(Users)}

Next ==
    \/ \E u \in Actors : \E d \in KnownDomains(u), readok \in BOOLEAN :
          select_domain(u, d, readok) /\ UNCHANGED <<workers, questions>>
    \/ \E u \in Actors, file \in Uploads :
          store_file(u, file) /\ UNCHANGED <<workers, questions>>
    \/ \E u \in Actors, readok \in BOOLEAN, fail \in Fails :
          upload_files(u, readok, fail) /\ UNCHANGED <<workers, questions>>
    \/ \E u \in Actors : \E f \in KnownFiles(u), d \in KnownDomains(u) :
          remove_file_upload(u, f, d) /\ UNCHANGED <<workers, questions>>
    \/ \E u \in Actors : \E d \in KnownDomains(u) :
          delete_domain(u, d) /\ UNCHANGED <<workers, questions>>
    \/ \E u \in Actors : \E d \in KnownDomains(u), name \in DomainNames :
          rename_domain(u, d, name) /\ UNCHANGED <<workers, questions>>
    \/ \E u \in Actors, name \in DomainNames :
          create_domain(u, name) /\ UNCHANGED <<workers, questions>>

Spec == Init /\ [][Next]_vars

\* ------------------------------------------------------------ SpecQuota
\* The commit path next to the file ceiling: user u1, free or premium, has
\* the guide and earlier uploads in the default domain, n files in all.
FileCeiling(user_type) ==
    IF user_type = "free" THEN FreeFileLimit ELSE PremiumFileLimit

FilesOfUser(u) == {f \in file_info : f.user_id = u}

NearCeilingStore(t, n) ==
    /\ user_info = [u \in Users |-> t]
    /\ domain_info = {[domain_id |-> DefaultDomain(u), user_id |-> u,
                       domain_name |-> "My First Folder", domain_type |-> 0] :
                      u \in Users}
    /\ file_info = {GuideFile(u) : u \in Users} \cup
                   {[file_id |-> i, user_id |-> "u1",
                     domain_id |-> DefaultDomain("u1"), file_name |-> "a.pdf"] :
                    i \in (Cardinality(Users) + 1) .. (n + 1)}
    /\ file_content = {[file_id |-> DefaultDomain(u), unit |-> k,
                        auth_data |-> DefaultDomain(u)] :
                       u \in Users, k \in 1 .. GuideUnits} \cup
                      {[file_id |-> i, unit |-> 1, auth_data |-> i] :
                       i \in (Cardinality(Users) + 1) .. (n + 1)}
    /\ next_file_id = n + 2
    /\ next_domain_id = Cardinality(Users) + 1

InitNearCeiling(t, n) ==
    /\ NearCeilingStore(t, n)
    /\ issued = 0

InitQuota ==
    /\ \E t \in Tiers : \E n \in (FileCeiling(t) - Headroom) .. FileCeiling(t) :
          InitNearCeiling(t, n)
    /\ InitCache
    /\ InitWorkers
    /\ InitSessions

NextQuota ==
    \/ \E u \in Actors : \E d \in KnownDomains(u), readok \in BOOLEAN :
          select_domain(u, d, readok) /\ UNCHANGED <<workers, questions>>
    \/ \E u \in Actors, file \in Uploads :
          store_file(u, file) /\ UNCHANGED <<workers, questions>>
    \/ \E u \in Actors, readok \in BOOLEAN, fail \in Fails :
          upload_files(u, readok, fail) /\ UNCHANGED <<workers, questions>>

SpecQuota == InitQuota /\ [][NextQuota]_vars

\* ------------------------------------------------------------- SpecRace
\* upload_files served by independent workers, one store round trip (Redis
\* command or SQL statement) at a time.  Each worker has its own connection
\* (Database.__enter__ connects anew); no statement sets an isolation level
\* or takes a lock, so every statement reads the rows committed so far and
\* the rows a worker has inserted are visible to the others from its commit.
Step(w, to, r) ==
    /\ pc' = [pc EXCEPT ![w] = to]
    /\ req' = [req EXCEPT ![w] = r]
    /\ UNCHANGED last

\* the JSONResponse of the request: the worker is free again
Finish(w, status, success) ==
    /\ pc' = [pc EXCEPT ![w] = "idle"]
    /\ req' = [req EXCEPT ![w] = Idle]
    /\ last' = [Answer(req[w].op, req[w].user) EXCEPT
                  !.status = status, !.success = success]

\* the staged key the loop over stored_files takes next
NextKey(keys) == CHOOSE n \in keys : \A m \in keys : KeyOrder[n] <= KeyOrder[m]

\* redis_manager.get_data(selected_domain)
uf_begin(w, u) ==
    /\ pc[w] = "idle"
    /\ Step(w, "domain", [Idle EXCEPT !.user = u, !.sel = selected_domain[u]])
    /\ UNCHANGED <<store, cache, next_file_id, next_domain_id, issued>>

\* db.get_domain_info
uf_domain(w) ==
    /\ pc[w] = "domain"
    /\ IF \A d \in req[w].sel : get_domain_info(DB, req[w].user, d) = {}
       THEN Finish(w, "invalid domain", 1)
       ELSE Step(w, "keys", req[w])
    /\ UNCHANGED <<store, cache, next_file_id, next_domain_id, issued>>

\* redis_manager.get_keys_by_pattern
uf_keys(w) ==
    /\ pc[w] = "keys"
    /\ IF StagedNames(req[w].user) = {}
       THEN Finish(w, "no files", 1)
       ELSE Step(w, "get", [req[w] EXCEPT !.keys = StagedNames(req[w].user)])
    /\ UNCHANGED <<store, cache, next_file_id, next_domain_id, issued>>

\* redis_manager.get_data(redis_key); "continue" when the key is gone
uf_get(w) ==
    LET n == NextKey(req[w].keys)
        rest == req[w].keys \ {n}
    IN  /\ pc[w] = "get"
        /\ IF upload[req[w].user][n] = {}
           THEN Step(w, IF rest = {} THEN "insert" ELSE "get",
                     [req[w] EXCEPT !.keys = rest])
           ELSE Step(w, "delete",
                     [req[w] EXCEPT !.key = {n},
                                    !.entry = upload[req[w].user][n]])
        /\ UNCHANGED <<store, cache, next_file_id, next_domain_id, issued>>

\* uuid4, the two batches grow, redis_manager.delete_data(redis_key)
uf_delete(w) ==
    LET u == req[w].user
        n == CHOOSE x \in req[w].key : TRUE
        rest == req[w].keys \ {n}
        ids == [x \in {n} |-> next_file_id]
        entries == [x \in {n} |-> CHOOSE e \in req[w].entry : TRUE]
    IN  /\ pc[w] = "delete"
        /\ issued < MaxRaceFiles
        /\ \E d \in req[w].sel :
              Step(w, IF rest = {} THEN "insert" ELSE "get",
                   [req[w] EXCEPT
                      !.keys = rest, !.key = {}, !.entry = {},
                      !.info = @ \cup FileInfoBatch(u, d, ids),
                      !.content = @ \cup FileContentBatch(entries, ids)])
        /\ upload' = [upload EXCEPT ![u][n] = {}]
        /\ next_file_id' = next_file_id + 1
        /\ issued' = issued + 1
        /\ UNCHANGED <<store, selected_domain, domain_content,
                       domain_embeddings, next_domain_id>>

\* db.insert_file_batches: the count query, the ceiling test and the two
\* inserts, which stay in the worker's transaction; an empty batch raises at
\* file_info_batch[0][0]
uf_insert(w, fail) ==
    /\ pc[w] = "insert"
    /\ IF req[w].info = {}
       THEN Finish(w, "error", 0)
       ELSE LET res == insert_file_batches(DB, req[w].info, req[w].content,
                                          fail)
            IN  IF res.raised
                THEN Finish(w, "error", 0)
                ELSE IF ~res.success
                THEN Finish(w, "quota", 0)
                ELSE Step(w, "commit", req[w])
    /\ UNCHANGED <<store, cache, next_file_id, next_domain_id, issued>>

\* a commit that makes the content rows durable without their file rows
uf_commit_ContentOnly(w) ==
    /\ pc[w] = "commit"
    /\ Commit([DB EXCEPT !.file_content = @ \cup req[w].content])
    /\ Step(w, "select", req[w])
    /\ UNCHANGED <<cache, next_file_id, next_domain_id, issued>>

\* db.conn.commit()
uf_commit(w) ==
    /\ pc[w] = "commit"
    /\ Commit([DB EXCEPT !.file_info = @ \cup req[w].info,
                         !.file_content = @ \cup req[w].content])
    /\ Step(w, "select", req[w])
    /\ UNCHANGED <<cache, next_file_id, next_domain_id, issued>>

\* update_selected_domain: redis_manager.set_data(selected_domain)
us_select(w) ==
    /\ pc[w] = "select"
    /\ selected_domain' = [selected_domain EXCEPT ![req[w].user] = req[w].sel]
    /\ Step(w, "files", req[w])
    /\ UNCHANGED <<store, domain_content, domain_embeddings, upload,
                   next_file_id, next_domain_id, issued>>

\* update_selected_domain: db.get_file_info_with_domain
us_files(w) ==
    /\ pc[w] = "files"
    /\ \E d \in req[w].sel :
          LET fi == get_file_info_with_domain(DB, req[w].user, d)
          IN  IF fi = {}
              THEN Step(w, "clear", [req[w] EXCEPT !.success = 1])
              ELSE Step(w, "content", [req[w] EXCEPT !.fi = fi])
    /\ UNCHANGED <<store, cache, next_file_id, next_domain_id, issued>>

\* update_selected_domain: db.get_file_content
us_content(w, readok) ==
    LET got == get_file_content(DB, FileIdsOf(req[w].fi), readok)
    IN  /\ pc[w] = "content"
        /\ IF got.content = {} \/ got.embeddings = {}
           THEN Step(w, "clear", [req[w] EXCEPT !.success = 0])
           ELSE Step(w, "publish", [req[w] EXCEPT !.got = {got}])
        /\ UNCHANGED <<store, cache, next_file_id, next_domain_id, issued>>

\* update_selected_domain: the delete_data calls of either early return
us_clear(w) ==
    /\ pc[w] = "clear"
    /\ SetCache(req[w].user, ClearDomainData(CacheOf(req[w].user)))
    /\ Finish(w, IF req[w].success = 1 THEN "success" ELSE "not updated",
              req[w].success)
    /\ UNCHANGED <<store, upload, next_file_id, next_domain_id, issued>>

\* update_selected_domain: redis_manager.set_data(domain_content)
us_publish(w) ==
    /\ pc[w] = "publish"
    /\ \E got \in req[w].got :
          domain_content' = [domain_content EXCEPT
                               ![req[w].user] = got.content]
    /\ Step(w, "publish2", req[w])
    /\ UNCHANGED <<store, selected_domain, domain_embeddings, upload,
                   next_file_id, next_domain_id, issued>>

\* a publish that returns without writing the embeddings key
us_publish2_Skip(w) ==
    /\ pc[w] = "publish2"
    /\ Finish(w, "success", 1)
    /\ UNCHANGED <<store, cache, upload, next_file_id, next_domain_id, issued>>

\* update_selected_domain: redis_manager.set_data(domain_embeddings), return
us_publish2(w) ==
    /\ pc[w] = "publish2"
    /\ \E got \in req[w].got :
          domain_embeddings' = [domain_embeddings EXCEPT
                                  ![req[w].user] = got.embeddings]
    /\ Finish(w, "success", 1)
    /\ UNCHANGED <<store, selected_domain, domain_content, upload,
                   next_file_id, next_domain_id, issued>>

\* User u1, free or premium, is one file below the ceiling and has selected
\* the default domain; its WorkingSet is published.
InitRace ==
    /\ \E t \in Tiers : InitNearCeiling(t, FileCeiling(t) - 1)
    /\ LET db == [user_info |-> user_info, domain_info |-> domain_info,
                  file_info |-> file_info, file_content |-> file_content]
           none == [selected_domain |-> {}, domain_content |-> {},
                    domain_embeddings |-> {}]
           r == update_selected_domain(none, db, "u1", DefaultDomain("u1"), TRUE)
       IN  /\ selected_domain = [u \in Users |->
                 IF u = "u1" THEN r.cache.selected_domain ELSE {}]
           /\ domain_content = [u \in Users |->
                 IF u = "u1" THEN r.cache.domain_content ELSE {}]
           /\ domain_embeddings = [u \in Users |->
                 IF u = "u1" THEN r.cache.domain_embeddings ELSE {}]
    /\ upload = [u \in Users |-> [n \in FileNames |-> {}]]
    /\ last = Answer("init", "u1")
    /\ InitWorkers
    /\ InitSessions

NextRace ==
    \/ \E u \in Actors, file \in {x \in Uploads : x.sentences > 0} :
          store_file(u, file) /\ UNCHANGED <<workers, questions>>
    \/ \E w \in Workers, u \in Actors : uf_begin(w, u) /\ UNCHANGED questions
    \/ \E w \in Workers : uf_domain(w) /\ UNCHANGED questions
    \/ \E w \in Workers : uf_keys(w) /\ UNCHANGED questions
    \/ \E w \in Workers : uf_get(w) /\ UNCHANGED questions
    \/ \E w \in Workers : uf_delete(w) /\ UNCHANGED questions
    \/ \E w \in Workers, fail \in Fails :
          uf_insert(w, fail) /\ UNCHANGED questions
    \/ \E w \in Workers : uf_commit(w) /\ UNCHANGED questions
    \/ \E w \in Workers : us_select(w) /\ UNCHANGED questions
    \/ \E w \in Workers : us_files(w) /\ UNCHANGED questions
    \/ \E w \in Workers, readok \in BOOLEAN : us_content(w, readok) /\ UNCHANGED questions
    \/ \E w \in Workers : us_clear(w) /\ UNCHANGED questions
    \/ \E w \in Workers : us_publish(w) /\ UNCHANGED questions
    \/ \E w \in Workers : us_publish2(w) /\ UNCHANGED questions

SpecRace == InitRace /\ [][NextRace]_vars
\* -------------------------------------------------- question Quota Ledger
RECURSIVE SumCounts(_)
SumCounts(rows) ==
    IF rows = {} THEN 0
    ELSE LET r == CHOOSE x \in rows : TRUE
         IN  r.question_count + SumCounts(rows \ {r})

\* query_get_daily_count: the rows of the user whose created_at lies in the
\* last 24 hours (the join with user_info keeps them all: every user has a
\* user_info row)
WindowSessions(sessions, user_id, t) ==
    {r \in sessions : /\ r.user_id = user_id
                      /\ r.created_at >= t - Day
                      /\ r.created_at <= t}

\* check_session_query and, when it finds no row, insert_session_query and
\* its commit
EnsureSession(sessions, user_id, session_id, t) ==
    IF \E r \in sessions : r.user_id = user_id /\ r.session_id = session_id
    THEN sessions
    ELSE sessions \cup {[user_id |-> user_id, session_id |-> session_id,
                         question_count |-> 0, created_at |-> t]}

QuestionQuotaReached(user_type, daily_count) ==
    user_type = "free" /\ daily_count >= FreeQuestionLimit

\* update_question_query
IncrementSession(sessions, user_id, session_id) ==
    {IF r.user_id = user_id /\ r.session_id = session_id
     THEN [r EXCEPT !.question_count = @ + 1] ELSE r : r \in sessions}

\* upsert_session_info with update_question_query run before the ceiling is
\* compared
upsert_session_info_CountFirst(sessions, types, user_id, session_id, t) ==
    LET s1 == EnsureSession(sessions, user_id, session_id, t)
        rows == WindowSessions(s1, user_id, t)
        daily_count == SumCounts(rows)
        s2 == IncrementSession(s1, user_id, session_id)
        mine == CHOOSE r \in s2 :
                   r.user_id = user_id /\ r.session_id = session_id
    IN  IF rows = {}
        THEN [raised |-> TRUE, success |-> FALSE, question_count |-> 0,
              sessions |-> s1]
        ELSE IF QuestionQuotaReached(types[user_id], daily_count)
        THEN [raised |-> FALSE, success |-> FALSE,
              question_count |-> daily_count, sessions |-> s2]
        ELSE [raised |-> FALSE, success |-> TRUE,
              question_count |-> mine.question_count, sessions |-> s2]

\* upsert_session_info at time t: raised when the daily-count query returns
\* no row (result[0] is then an IndexError); the session row inserted before
\* the count is committed whatever follows
upsert_session_info(sessions, types, user_id, session_id, t) ==
    LET s1 == EnsureSession(sessions, user_id, session_id, t)
        rows == WindowSessions(s1, user_id, t)
        daily_count == SumCounts(rows)
        s2 == IncrementSession(s1, user_id, session_id)
        mine == CHOOSE r \in s2 :
                   r.user_id = user_id /\ r.session_id = session_id
    IN  IF rows = {}
        THEN [raised |-> TRUE, success |-> FALSE, question_count |-> 0,
              sessions |-> s1]
        ELSE IF QuestionQuotaReached(types[user_id], daily_count)
        THEN [raised |-> FALSE, success |-> FALSE,
              question_count |-> daily_count, sessions |-> s1]
        ELSE [raised |-> FALSE, success |-> TRUE,
              question_count |-> mine.question_count, sessions |-> s2]

\* the questions of user u the history holds from time t on
RECURSIVE AskedSince(_, _)
AskedSince(u, t) ==
    IF t > MaxTime THEN 0 ELSE asked[u][t] + AskedSince(u, t + 1)

\* history: a question of user u is admitted at the present time
Admit(u) == asked' = [asked EXCEPT ![u][now] = @ + 1]

\* POST /qa/generate_answer, up to the admission of the question (the search
\* that follows changes neither store)
generate_answer(u, s, has_files) ==
    LET r == upsert_session_info(session_info, user_info, u, s, now)
        ans == Answer("generate_answer", u)
    IN  /\ IF selected_domain[u] = {}
           THEN /\ last' = [ans EXCEPT !.status = "no domain", !.success = 0]
                /\ UNCHANGED <<session_info, asked>>
           ELSE IF ~has_files
           THEN /\ last' = [ans EXCEPT !.status = "no files", !.success = 0]
                /\ UNCHANGED <<session_info, asked>>
           ELSE /\ r.success => AskedSince(u, 0) < FreeQuestionLimit + MaxAsks
                /\ session_info' = r.sessions
                /\ IF r.raised
                   THEN /\ last' = [ans EXCEPT !.status = "error", !.success = 0]
                        /\ UNCHANGED asked
                   ELSE IF ~r.success
                   THEN /\ last' = [ans EXCEPT !.status = "quota", !.success = 0]
                        /\ UNCHANGED asked
                   ELSE /\ last' = [ans EXCEPT !.status = "admitted"]
                        /\ Admit(u)
        /\ UNCHANGED <<store, cache, next_file_id, next_domain_id, issued, now>>

\* twelve hours pass
Tick ==
    /\ now < MaxTime
    /\ now' = now + 1
    /\ UNCHANGED <<store, cache, next_file_id, next_domain_id, issued, last,
                   workers, session_info, asked>>

\* -------------------------------------------------------- SpecQuestions
\* User u1, free or premium, opened session s1 at time 0 and has asked n
\* questions in it, all at time a; it is now time a.
InitAsked(n, a) ==
    /\ session_info = {[user_id |-> "u1", session_id |-> "s1",
                        question_count |-> n, created_at |-> 0]}
    /\ now = a
    /\ asked = [u \in Users |-> [t \in Times |->
                  IF u = "u1" /\ t = a THEN n ELSE 0]]

InitQuestions ==
    /\ \E t \in Tiers : InitStore([u \in Users |-> t])
    /\ InitCache
    /\ InitWorkers
    /\ \E n \in (FreeQuestionLimit - Headroom) .. FreeQuestionLimit :
          \E a \in 0 .. Day : InitAsked(n, a)

NextQuestions ==
    \/ \E u \in Actors :
          select_domain(u, DefaultDomain(u), TRUE)
             /\ UNCHANGED <<workers, questions>>
    \/ \E u \in Actors, s \in Sessions, has_files \in BOOLEAN :
          generate_answer(u, s, has_files) /\ UNCHANGED workers
    \/ Tick

SpecQuestions == InitQuestions /\ [][NextQuestions]_vars

\* ----------------------------------------------------------- SpecVisits
\* the question_count of all sessions of user u
TotalCount(u) == SumCounts({r \in session_info : r.user_id = u})

\* GET /chat/{session_id} of main_dev: the page visit calls
\* upsert_session_info and the with block commits
chat_page(u, s) ==
    LET r == upsert_session_info(session_info, user_info, u, s, now)
        ans == Answer("chat_page", u)
    IN  /\ r.success => TotalCount(u) < FreeQuestionLimit + MaxAsks
        /\ session_info' = r.sessions
        /\ last' = [ans EXCEPT
                      !.status = IF r.raised THEN "error"
                                 ELSE IF r.success THEN "success" ELSE "quota",
                      !.success = IF r.raised THEN 0 ELSE 1]
        /\ UNCHANGED <<store, cache, next_file_id, next_domain_id, issued,
                       now, asked>>

NextVisits ==
    \/ \E u \in Actors :
          select_domain(u, DefaultDomain(u), TRUE)
             /\ UNCHANGED <<workers, questions>>
    \/ \E u \in Actors, s \in Sessions, has_files \in BOOLEAN :
          generate_answer(u, s, has_files) /\ UNCHANGED workers
    \/ \E u \in Actors, s \in Sessions :
          chat_page(u, s) /\ UNCHANGED workers
    \/ Tick

SpecVisits == InitQuestions /\ [][NextVisits]_vars

\* --------------------------------------------------------- SpecAskRace
\* generate_answer served by independent workers, one store round trip at a
\* time; worker w1 serves session s1 and worker w2 session s2.
SessionOf(w) == IF w = "w1" THEN "s1" ELSE "s2"

FinishAsk(w, status, success) ==
    /\ pc' = [pc EXCEPT ![w] = "idle"]
    /\ req' = [req EXCEPT ![w] = Idle]
    /\ last' = [Answer("generate_answer", req[w].user) EXCEPT
                  !.status = status, !.success = success]

\* redis_manager.get_data(selected_domain) and the file_ids test
ga_begin(w, u, has_files) ==
    /\ pc[w] = "idle"
    /\ AskedSince(u, 0) < FreeQuestionLimit + MaxAsks
    /\ IF selected_domain[u] = {}
       THEN /\ pc' = pc /\ req' = req
            /\ last' = [Answer("generate_answer", u) EXCEPT
                          !.status = "no domain", !.success = 0]
       ELSE IF ~has_files
       THEN /\ pc' = pc /\ req' = req
            /\ last' = [Answer("generate_answer", u) EXCEPT
                          !.status = "no files", !.success = 0]
       ELSE Step(w, "session",
                 [Idle EXCEPT !.user = u, !.session = SessionOf(w)])
    /\ UNCHANGED <<store, cache, next_file_id, next_domain_id, issued,
                   questions>>

\* upsert_session_info: check_session_query, insert_session_query, commit
ga_session(w) ==
    /\ pc[w] = "session"
    /\ session_info' = EnsureSession(session_info, req[w].user,
                                     req[w].session, now)
    /\ Step(w, "count", req[w])
    /\ UNCHANGED <<store, cache, next_file_id, next_domain_id, issued, now,
                   asked>>

\* upsert_session_info: query_get_daily_count and the ceiling test
ga_count(w) ==
    LET rows == WindowSessions(session_info, req[w].user, now)
        daily_count == SumCounts(rows)
    IN  /\ pc[w] = "count"
        /\ IF rows = {}
           THEN FinishAsk(w, "error", 0)
           ELSE IF QuestionQuotaReached(user_info[req[w].user], daily_count)
           THEN FinishAsk(w, "quota", 0)
           ELSE Step(w, "increment", [req[w] EXCEPT !.daily = {daily_count}])
        /\ UNCHANGED <<store, cache, next_file_id, next_domain_id, issued,
                       questions>>

\* upsert_session_info: update_question_query, commit, and the answer
ga_increment(w) ==
    /\ pc[w] = "increment"
    /\ session_info' = IncrementSession(session_info, req[w].user,
                                        req[w].session)
    /\ Admit(req[w].user)
    /\ FinishAsk(w, "admitted", 1)
    /\ UNCHANGED <<store, cache, next_file_id, next_domain_id, issued, now>>

\* the default domain of u1 is selected and its WorkingSet published
InitSelected ==
    LET r == update_selected_domain(
                 [selected_domain |-> {}, domain_content |-> {},
                  domain_embeddings |-> {}],
                 [user_info |-> user_info, domain_info |-> domain_info,
                  file_info |-> file_info, file_content |-> file_content],
                 "u1", DefaultDomain("u1"), TRUE)
    IN  /\ selected_domain = [u \in Users |->
              IF u = "u1" THEN r.cache.selected_domain ELSE {}]
        /\ domain_content = [u \in Users |->
              IF u = "u1" THEN r.cache.domain_content ELSE {}]
        /\ domain_embeddings = [u \in Users |->
              IF u = "u1" THEN r.cache.domain_embeddings ELSE {}]
        /\ upload = [u \in Users |-> [n \in FileNames |-> {}]]
        /\ last = Answer("init", "u1")

\* u1 is one question below the free ceiling, all asked in session s1
InitAskRace ==
    /\ \E t \in Tiers : InitStore([u \in Users |-> t])
    /\ InitSelected
    /\ InitWorkers
    /\ InitAsked(FreeQuestionLimit - 1, 0)

NextAskRace ==
    \/ \E w \in Workers, u \in Actors, has_files \in BOOLEAN :
          ga_begin(w, u, has_files)
    \/ \E w \in Workers : ga_session(w)
    \/ \E w \in Workers : ga_count(w)
    \/ \E w \in Workers : ga_increment(w)
    \/ Tick

SpecAskRace == InitAskRace /\ [][NextAskRace]_vars

\* -------------------------------------------------------- SpecQueryRace
\* generate_answer served by worker w2, one cache round trip at a time,
\* while worker w1 serves upload_files and its republish.

\* generate_answer up to the admission of the question: the selected_domain
\* and file_ids tests and upsert_session_info
qa_begin(w, u, s, file_ids) ==
    LET r == upsert_session_info(session_info, user_info, u, s, now)
        ans == Answer("generate_answer", u)
    IN  /\ pc[w] = "idle"
        /\ AskedSince(u, 0) < MaxQueries
        /\ IF selected_domain[u] = {}
           THEN /\ last' = [ans EXCEPT !.status = "no domain", !.success = 0]
                /\ UNCHANGED <<workers, session_info, asked>>
           ELSE IF file_ids = {}
           THEN /\ last' = [ans EXCEPT !.status = "no files", !.success = 0]
                /\ UNCHANGED <<workers, session_info, asked>>
           ELSE /\ session_info' = r.sessions
                /\ IF r.raised
                   THEN /\ last' = [ans EXCEPT !.status = "error", !.success = 0]
                        /\ UNCHANGED <<workers, asked>>
                   ELSE IF ~r.success
                   THEN /\ last' = [ans EXCEPT !.status = "quota", !.success = 0]
                        /\ UNCHANGED <<workers, asked>>
                   ELSE /\ Admit(u)
                        /\ Step(w, "qa_content",
                                [Idle EXCEPT !.user = u, !.session = s,
                                             !.file_ids = file_ids,
                                             !.op = "generate_answer"])
        /\ UNCHANGED <<store, cache, next_file_id, next_domain_id, issued, now>>

\* generate_answer: redis_manager.get_data(domain_content)
qa_content(w) ==
    /\ pc[w] = "qa_content"
    /\ Step(w, "qa_embeddings",
            [req[w] EXCEPT !.content = domain_content[req[w].user]])
    /\ UNCHANGED <<store, cache, next_file_id, next_domain_id, issued,
                   questions>>

\* generate_answer: redis_manager.get_data(domain_embeddings)
qa_embeddings(w) ==
    /\ pc[w] = "qa_embeddings"
    /\ Step(w, "qa_search",
            [req[w] EXCEPT !.embeddings = domain_embeddings[req[w].user]])
    /\ UNCHANGED <<store, cache, next_file_id, next_domain_id, issued,
                   questions>>

\* generate_answer: the search over what was read, and the answer
qa_search(w) ==
    /\ pc[w] = "qa_search"
    /\ IF req[w].content = {} \/ req[w].embeddings = {}
       THEN Finish(w, "nothing", 0)
       ELSE Finish(w, "answered", 1)
    /\ UNCHANGED <<store, cache, next_file_id, next_domain_id, issued,
                   questions>>

\* User u1, free or premium, has selected the default domain, which holds
\* the user guide; its WorkingSet is published.
InitQueryRace ==
    /\ \E t \in Tiers : InitStore([u \in Users |-> t])
    /\ InitSelected
    /\ InitWorkers
    /\ InitSessions

NextQueryRace ==
    \/ \E u \in Actors, file \in {x \in Uploads : x.sentences > 0} :
          store_file(u, file) /\ UNCHANGED <<workers, questions>>
    \/ \E w \in Uploaders, u \in Actors : uf_begin(w, u) /\ UNCHANGED questions
    \/ \E w \in Workers : uf_domain(w) /\ UNCHANGED questions
    \/ \E w \in Workers : uf_keys(w) /\ UNCHANGED questions
    \/ \E w \in Workers : uf_get(w) /\ UNCHANGED questions
    \/ \E w \in Workers : uf_delete(w) /\ UNCHANGED questions
    \/ \E w \in Workers, fail \in Fails :
          uf_insert(w, fail) /\ UNCHANGED questions
    \/ \E w \in Workers : uf_commit(w) /\ UNCHANGED questions
    \/ \E w \in Workers : us_select(w) /\ UNCHANGED questions
    \/ \E w \in Workers : us_files(w) /\ UNCHANGED questions
    \/ \E w \in Workers, readok \in BOOLEAN :
          us_content(w, readok) /\ UNCHANGED questions
    \/ \E w \in Workers : us_clear(w) /\ UNCHANGED questions
    \/ \E w \in Workers : us_publish(w) /\ UNCHANGED questions
    \/ \E w \in Workers : us_publish2(w) /\ UNCHANGED questions
    \/ \E w \in Askers, u \in Actors :
          \E file_ids \in {{}} \cup {{f} : f \in FileIdsOf(file_info)} :
             qa_begin(w, u, SessionOf(w), file_ids)
    \/ \E w \in Workers : qa_content(w)
    \/ \E w \in Workers : qa_embeddings(w)
    \/ \E w \in Workers : qa_search(w)

SpecQueryRace == InitQueryRace /\ [][NextQueryRace]_vars
\* ---------------------------------------------------------- SpecDomains
\* User u1, free or premium, owns the default domain and n - 1 domains
\* created earlier, which is at most Headroom below the domain ceiling.
DomainCeiling(user_type) ==
    IF user_type = "free" THEN FreeDomainLimit ELSE PremiumDomainLimit

\* the ids uuid4 gave the domains created earlier
EarlierDomainIds(n) == {100 + i : i \in 1 .. (n - 1)}

DomainsOfUser(u) == {d \in domain_info : d.user_id = u}

InitDomains ==
    /\ \E t \in Tiers :
          \E n \in (DomainCeiling(t) - Headroom) .. DomainCeiling(t) :
             /\ n >= 1
             /\ user_info = [u \in Users |-> t]
             /\ domain_info =
                   {[domain_id |-> DefaultDomain(u), user_id |-> u,
                     domain_name |-> "My First Folder", domain_type |-> 0] :
                       u \in Users} \cup
                   {[domain_id |-> d, user_id |-> "u1",
                     domain_name |-> "My First Folder", domain_type |-> 1] :
                       d \in EarlierDomainIds(n)}
    /\ file_info = {GuideFile(u) : u \in Users}
    /\ file_content = {[file_id |-> DefaultDomain(u), unit |-> k,
                        auth_data |-> DefaultDomain(u)] :
                       u \in Users, k \in 1 .. GuideUnits}
    /\ next_file_id = Cardinality(Users) + 1
    /\ next_domain_id = Cardinality(Users) + 1
    /\ issued = 0
    /\ InitCache
    /\ InitWorkers
    /\ InitSessions

NextDomains ==
    \/ \E u \in Actors, name \in DomainNames :
          create_domain(u, name) /\ UNCHANGED <<workers, questions>>
    \/ \E u \in Actors :
          \E d \in KnownDomains(u) \cup {x.domain_id : x \in DomainsOfUser(u)} :
             delete_domain(u, d) /\ UNCHANGED <<workers, questions>>
    \/ \E u \in Actors :
          \E d \in KnownDomains(u) \cup {x.domain_id : x \in DomainsOfUser(u)},
             name \in DomainNames :
             rename_domain(u, d, name) /\ UNCHANGED <<workers, questions>>

SpecDomains == InitDomains /\ [][NextDomains]_vars

\* ----------------------------------------------------------- SpecCommit
\* The commit path with batches of several files and with inserts that fail:
\* as SpecQuota, the behaviour issuing up to BatchFiles file ids.
InitCommit ==
    /\ \E t \in Tiers : \E n \in (FileCeiling(t) - Headroom) .. FileCeiling(t) :
          NearCeilingStore(t, n)
    /\ issued = MaxFiles - BatchFiles
    /\ InitCache
    /\ InitWorkers
    /\ InitSessions

NextCommit ==
    \/ \E u \in Actors : \E d \in KnownDomains(u), readok \in BOOLEAN :
          select_domain(u, d, readok) /\ UNCHANGED <<workers, questions>>
    \/ \E u \in Actors, file \in Uploads :
          store_file(u, file) /\ UNCHANGED <<workers, questions>>
    \/ \E u \in Actors, readok \in BOOLEAN, fail \in Fails :
          upload_files(u, readok, fail) /\ UNCHANGED <<workers, questions>>

SpecCommit == InitCommit /\ [][NextCommit]_vars

\* ---------------------------------------------------------- SpecStaging
\* Both users stage, restage and commit uploads, and staged entries expire.
\* The document a client sends under a name may differ from one upload to the
\* next.
Revisions ==
    UNION {{[name |-> n, sentences |-> k] : k \in {0, 1, Sentences(n)}} :
              n \in FileNames}

\* The cache server drops a staging key when its lifetime is over (the key
\* is written with expiry=3600); spec.md: "if the user never commits, the
\* entry silently expires and the upload is lost".
expire_upload(u, name) ==
    /\ upload[u][name] # {}
    /\ upload' = [upload EXCEPT ![u][name] = {}]
    /\ UNCHANGED <<store, selected_domain, domain_content, domain_embeddings,
                   next_file_id, next_domain_id, issued, last>>

NextStaging ==
    \/ \E u \in Users :
          select_domain(u, DefaultDomain(u), TRUE)
             /\ UNCHANGED <<workers, questions>>
    \/ \E u \in Users, file \in Revisions :
          store_file(u, file) /\ UNCHANGED <<workers, questions>>
    \/ \E u \in Users :
          upload_files(u, TRUE, "none") /\ UNCHANGED <<workers, questions>>
    \/ \E u \in Users, name \in FileNames :
          expire_upload(u, name) /\ UNCHANGED <<workers, questions>>

\* every staging key has a lifetime, which the cache server enforces
FairStaging ==
    \A u \in Users, name \in FileNames :
        WF_vars(expire_upload(u, name) /\ UNCHANGED <<workers, questions>>)

SpecStaging == Init /\ [][NextStaging]_vars /\ FairStaging

\* ----------------------------------------------------------- SpecOwners
\* User u1 sends requests that may name any domain id or file id that has
\* been issued, also one of user u2.  u2 owns the default domain 2 with the
\* user guide and the created domain 3 with file 3, and has selected and
\* published domain 3.
NewNames == {"Renamed"}

InitOwners ==
    /\ user_info = [u \in Users |-> "free"]
    /\ domain_info =
          {[domain_id |-> DefaultDomain(u), user_id |-> u,
            domain_name |-> "My First Folder", domain_type |-> 0] :
              u \in Users} \cup
          {[domain_id |-> 3, user_id |-> "u2",
            domain_name |-> "My First Folder", domain_type |-> 1]}
    /\ file_info = {GuideFile(u) : u \in Users} \cup
          {[file_id |-> 3, user_id |-> "u2", domain_id |-> 3,
            file_name |-> "a.pdf"]}
    /\ file_content = {[file_id |-> DefaultDomain(u), unit |-> k,
                        auth_data |-> DefaultDomain(u)] :
                       u \in Users, k \in 1 .. GuideUnits} \cup
                      {[file_id |-> 3, unit |-> 1, auth_data |-> 3]}
    /\ next_file_id = 4
    /\ next_domain_id = 4
    /\ issued = 0
    /\ LET r == update_selected_domain(
                   [selected_domain |-> {}, domain_content |-> {},
                    domain_embeddings |-> {}],
                   [user_info |-> user_info, domain_info |-> domain_info,
                    file_info |-> file_info, file_content |-> file_content],
                   "u2", 3, TRUE)
       IN  /\ selected_domain = [u \in Users |->
                 IF u = "u2" THEN r.cache.selected_domain ELSE {}]
           /\ domain_content = [u \in Users |->
                 IF u = "u2" THEN r.cache.domain_content ELSE {}]
           /\ domain_embeddings = [u \in Users |->
                 IF u = "u2" THEN r.cache.domain_embeddings ELSE {}]
    /\ upload = [u \in Users |-> [n \in FileNames |->
                    IF u = "u2" /\ n = "b.pdf" THEN {Sentences(n)} ELSE {}]]
    /\ last = Answer("init", "u1")
    /\ InitWorkers
    /\ InitSessions

NextOwners ==
    \/ \E u \in Actors, d \in IssuedDomains, readok \in BOOLEAN :
          select_domain(u, d, readok) /\ UNCHANGED <<workers, questions>>
    \/ \E u \in Actors :
          store_file(u, [name |-> "a.pdf", sentences |-> Sentences("a.pdf")])
             /\ UNCHANGED <<workers, questions>>
    \/ \E u \in Actors :
          upload_files(u, TRUE, "none") /\ UNCHANGED <<workers, questions>>
    \/ \E u \in Actors, f \in IssuedFiles, d \in IssuedDomains :
          remove_file_upload(u, f, d) /\ UNCHANGED <<workers, questions>>
    \/ \E u \in Actors, d \in IssuedDomains :
          delete_domain(u, d) /\ UNCHANGED <<workers, questions>>
    \/ \E u \in Actors, d \in IssuedDomains, name \in NewNames :
          rename_domain(u, d, name) /\ UNCHANGED <<workers, questions>>

SpecOwners == InitOwners /\ [][NextOwners]_vars

\* ---------------------------------------------------------- SpecTargets
\* Commits with and without a valid target: free user u1 owns its default
\* domain and domain 3 with one file, has selected nothing and staged
\* nothing, and selects domains of its own and of u2, stages files, deletes
\* domains and commits.
InitTargets ==
    /\ user_info = [u \in Users |-> "free"]
    /\ domain_info =
          {[domain_id |-> DefaultDomain(u), user_id |-> u,
            domain_name |-> "My First Folder", domain_type |-> 0] :
              u \in Users} \cup
          {[domain_id |-> 3, user_id |-> "u1",
            domain_name |-> "My First Folder", domain_type |-> 1]}
    /\ file_info = {GuideFile(u) : u \in Users} \cup
          {[file_id |-> 3, user_id |-> "u1", domain_id |-> 3,
            file_name |-> "a.pdf"]}
    /\ file_content = {[file_id |-> DefaultDomain(u), unit |-> k,
                        auth_data |-> DefaultDomain(u)] :
                       u \in Users, k \in 1 .. GuideUnits} \cup
                      {[file_id |-> 3, unit |-> 1, auth_data |-> 3]}
    /\ next_file_id = 4
    /\ next_domain_id = 4
    /\ issued = 0
    /\ InitCache
    /\ InitWorkers
    /\ InitSessions

NextTargets ==
    \/ \E u \in Actors, d \in IssuedDomains :
          select_domain(u, d, TRUE) /\ UNCHANGED <<workers, questions>>
    \/ \E u \in Actors, file \in Uploads :
          store_file(u, file) /\ UNCHANGED <<workers, questions>>
    \/ \E u \in Actors :
          upload_files(u, TRUE, "none") /\ UNCHANGED <<workers, questions>>
    \/ \E u \in Actors, d \in IssuedDomains :
          delete_domain(u, d) /\ UNCHANGED <<workers, questions>>

SpecTargets == InitTargets /\ [][NextTargets]_vars

\* ------------------------------------------------------- SpecSelectRace
\* select_domain served by both workers, one store round trip at a time.
\* Requests in flight together name the same user and the same domain, and
\* the relational store does not change, so they observe the same file set.
sd_begin(w, u, d) ==
    /\ pc[w] = "idle"
    /\ \A v \in Workers \ {w} :
          pc[v] = "idle" \/ (req[v].user = u /\ req[v].sel = {d})
    /\ Step(w, "select", [Idle EXCEPT !.user = u, !.sel = {d},
                                      !.op = "select_domain"])
    /\ UNCHANGED <<store, cache, next_file_id, next_domain_id, issued>>

\* User u1 owns the default domain, which holds the user guide, and the
\* empty domain 3; nothing is selected or published.
InitSelectRace ==
    /\ \E t \in Tiers : user_info = [u \in Users |-> t]
    /\ domain_info =
          {[domain_id |-> DefaultDomain(u), user_id |-> u,
            domain_name |-> "My First Folder", domain_type |-> 0] :
              u \in Users} \cup
          {[domain_id |-> 3, user_id |-> "u1",
            domain_name |-> "My First Folder", domain_type |-> 1]}
    /\ file_info = {GuideFile(u) : u \in Users}
    /\ file_content = {[file_id |-> DefaultDomain(u), unit |-> k,
                        auth_data |-> DefaultDomain(u)] :
                       u \in Users, k \in 1 .. GuideUnits}
    /\ next_file_id = 3
    /\ next_domain_id = 4
    /\ issued = 0
    /\ InitCache
    /\ InitWorkers
    /\ InitSessions

NextSelectRace ==
    \/ \E w \in Workers, u \in Actors : \E d \in KnownDomains(u) :
          sd_begin(w, u, d) /\ UNCHANGED questions
    \/ \E w \in Workers : us_select(w) /\ UNCHANGED questions
    \/ \E w \in Workers : us_files(w) /\ UNCHANGED questions
    \/ \E w \in Workers : us_content(w, TRUE) /\ UNCHANGED questions
    \/ \E w \in Workers : us_clear(w) /\ UNCHANGED questions
    \/ \E w \in Workers : us_publish(w) /\ UNCHANGED questions
    \/ \E w \in Workers : us_publish2(w) /\ UNCHANGED questions

SpecSelectRace == InitSelectRace /\ [][NextSelectRace]_vars

\* ------------------------------------------------------- SpecDeleteRace
\* delete_domain served one SQL statement at a time by worker w2 while
\* worker w1 serves upload_files.  Each DELETE removes the rows committed
\* when it runs; what a transaction has deleted shows from its commit.

\* The relational schema (sql/table_initialize.sql) is not part of the
\* sources read here; spec.md states its rule: "deleting a File cascades to
\* all its ContentUnits".  The content rows a DELETE on file_info takes with
\* it:
CascadeContent(content, files) ==
    {c \in content : c.file_id \in FileIdsOf(files)}

\* the request body names the domain
dd_begin(w, u, d) ==
    /\ pc[w] = "idle"
    /\ Step(w, "dd_type", [Idle EXCEPT !.user = u, !.sel = {d},
                                       !.op = "delete_domain"])
    /\ UNCHANGED <<store, cache, next_file_id, next_domain_id, issued>>

\* Database.delete_domain: get_domain_type_query and the domain_type test
dd_type(w) ==
    /\ pc[w] = "dd_type"
    /\ \E d \in req[w].sel :
          LET rows == {x \in domain_info : x.domain_id = d}
          IN  IF rows = {}
              THEN Finish(w, "error", 0)
              ELSE IF \E x \in rows : x.domain_type = 0
              THEN Finish(w, "rejected", -1)
              ELSE Step(w, "dd_files", req[w])
    /\ UNCHANGED <<store, cache, next_file_id, next_domain_id, issued>>

\* Database.delete_domain: get_files_query
dd_files(w) ==
    /\ pc[w] = "dd_files"
    /\ \E d \in req[w].sel :
          Step(w, "dd_delete",
               [req[w] EXCEPT !.fi = {f \in file_info : f.domain_id = d}])
    /\ UNCHANGED <<store, cache, next_file_id, next_domain_id, issued>>

\* Database.delete_domain: delete_content_query for the file ids fetched,
\* delete_files_query (with the schema's cascade) and delete_domain_query
\* for the domain id
dd_delete(w) ==
    /\ pc[w] = "dd_delete"
    /\ \E d \in req[w].sel :
          LET files == {f \in file_info : f.domain_id = d}
          IN  Step(w, "dd_commit",
                   [req[w] EXCEPT
                      !.content = {c \in file_content :
                                     c.file_id \in FileIdsOf(req[w].fi)}
                                  \cup CascadeContent(file_content, files),
                      !.info = files,
                      !.got = {x \in domain_info : x.domain_id = d}])
    /\ UNCHANGED <<store, cache, next_file_id, next_domain_id, issued>>

\* the endpoint's db.conn.commit() and its answer
dd_commit(w) ==
    /\ pc[w] = "dd_commit"
    /\ file_content' = file_content \ req[w].content
    /\ file_info' = file_info \ req[w].info
    /\ domain_info' = domain_info \ req[w].got
    /\ Finish(w, IF req[w].got = {} THEN "rejected" ELSE "success",
              IF req[w].got = {} THEN 0 ELSE 1)
    /\ UNCHANGED <<user_info, cache, next_file_id, next_domain_id, issued>>

\* User u1 has created domain 3, committed file 3 into it and selected it;
\* "a.pdf" is staged again.
InitDeleteRace ==
    /\ \E t \in Tiers : user_info = [u \in Users |-> t]
    /\ domain_info =
          {[domain_id |-> DefaultDomain(u), user_id |-> u,
            domain_name |-> "My First Folder", domain_type |-> 0] :
              u \in Users} \cup
          {[domain_id |-> 3, user_id |-> "u1",
            domain_name |-> "My First Folder", domain_type |-> 1]}
    /\ file_info = {GuideFile(u) : u \in Users} \cup
          {[file_id |-> 3, user_id |-> "u1", domain_id |-> 3,
            file_name |-> "a.pdf"]}
    /\ file_content = {[file_id |-> DefaultDomain(u), unit |-> k,
                        auth_data |-> DefaultDomain(u)] :
                       u \in Users, k \in 1 .. GuideUnits} \cup
                      {[file_id |-> 3, unit |-> 1, auth_data |-> 3]}
    /\ next_file_id = 4
    /\ next_domain_id = 4
    /\ issued = 0
    /\ LET r == update_selected_domain(
                   [selected_domain |-> {}, domain_content |-> {},
                    domain_embeddings |-> {}],
                   [user_info |-> user_info, domain_info |-> domain_info,
                    file_info |-> file_info, file_content |-> file_content],
                   "u1", 3, TRUE)
       IN  /\ selected_domain = [u \in Users |->
                 IF u = "u1" THEN r.cache.selected_domain ELSE {}]
           /\ domain_content = [u \in Users |->
                 IF u = "u1" THEN r.cache.domain_content ELSE {}]
           /\ domain_embeddings = [u \in Users |->
                 IF u = "u1" THEN r.cache.domain_embeddings ELSE {}]
    /\ upload = [u \in Users |-> [n \in FileNames |->
                    IF u = "u1" /\ n = "a.pdf" THEN {Sentences(n)} ELSE {}]]
    /\ last = Answer("init", "u1")
    /\ InitWorkers
    /\ InitSessions

NextDeleteRace ==
    \/ \E w \in Uploaders, u \in Actors : uf_begin(w, u) /\ UNCHANGED questions
    \/ \E w \in Workers : uf_domain(w) /\ UNCHANGED questions
    \/ \E w \in Workers : uf_keys(w) /\ UNCHANGED questions
    \/ \E w \in Workers : uf_get(w) /\ UNCHANGED questions
    \/ \E w \in Workers : uf_delete(w) /\ UNCHANGED questions
    \/ \E w \in Workers, fail \in Fails :
          uf_insert(w, fail) /\ UNCHANGED questions
    \/ \E w \in Workers : uf_commit(w) /\ UNCHANGED questions
    \/ \E w \in Workers : us_select(w) /\ UNCHANGED questions
    \/ \E w \in Workers : us_files(w) /\ UNCHANGED questions
    \/ \E w \in Workers, readok \in BOOLEAN :
          us_content(w, readok) /\ UNCHANGED questions
    \/ \E w \in Workers : us_clear(w) /\ UNCHANGED questions
    \/ \E w \in Workers : us_publish(w) /\ UNCHANGED questions
    \/ \E w \in Workers : us_publish2(w) /\ UNCHANGED questions
    \/ \E w \in Deleters, u \in Actors : \E d \in KnownDomains(u) :
          dd_begin(w, u, d) /\ UNCHANGED questions
    \/ \E w \in Workers : dd_type(w) /\ UNCHANGED questions
    \/ \E w \in Workers : dd_files(w) /\ UNCHANGED questions
    \/ \E w \in Workers : dd_delete(w) /\ UNCHANGED questions
    \/ \E w \in Workers : dd_commit(w) /\ UNCHANGED questions
    \/ \E u \in Actors : \E f \in KnownFiles(u), d \in KnownDomains(u) :
          remove_file_upload(u, f, d) /\ UNCHANGED <<workers, questions>>

SpecDeleteRace == InitDeleteRace /\ [][NextDeleteRace]_vars

\* ------------------------------------------------------- SpecSwitchRace
\* select_domain served by both workers, one store round trip at a time,
\* for any two domains of the user: u1 owns the default domain with the
\* user guide and domain 3 with file 3.
ss_begin(w, u, d) ==
    /\ pc[w] = "idle"
    /\ Step(w, "select", [Idle EXCEPT !.user = u, !.sel = {d},
                                      !.op = "select_domain"])
    /\ UNCHANGED <<store, cache, next_file_id, next_domain_id, issued>>

NextSwitchRace ==
    \/ \E w \in Workers, u \in Actors : \E d \in KnownDomains(u) :
          ss_begin(w, u, d) /\ UNCHANGED questions
    \/ \E w \in Workers : us_select(w) /\ UNCHANGED questions
    \/ \E w \in Workers : us_files(w) /\ UNCHANGED questions
    \/ \E w \in Workers : us_content(w, TRUE) /\ UNCHANGED questions
    \/ \E w \in Workers : us_publish(w) /\ UNCHANGED questions
    \/ \E w \in Workers : us_publish2(w) /\ UNCHANGED questions

SpecSwitchRace == InitDeleteRace /\ [][NextSwitchRace]_vars

\* ------------------------------------------------------- SpecCommitRace
\* upload_files served by both workers for user u1, who has staged "a.pdf"
\* once; nothing is staged afterwards.
NextCommitRace ==
    \/ \E w \in Workers, u \in Actors : uf_begin(w, u) /\ UNCHANGED questions
    \/ \E w \in Workers : uf_domain(w) /\ UNCHANGED questions
    \/ \E w \in Workers : uf_keys(w) /\ UNCHANGED questions
    \/ \E w \in Workers : uf_get(w) /\ UNCHANGED questions
    \/ \E w \in Workers : uf_delete(w) /\ UNCHANGED questions
    \/ \E w \in Workers, fail \in Fails :
          uf_insert(w, fail) /\ UNCHANGED questions
    \/ \E w \in Workers : uf_commit(w) /\ UNCHANGED questions
    \/ \E w \in Workers : us_select(w) /\ UNCHANGED questions
    \/ \E w \in Workers : us_files(w) /\ UNCHANGED questions
    \/ \E w \in Workers, readok \in BOOLEAN :
          us_content(w, readok) /\ UNCHANGED questions
    \/ \E w \in Workers : us_clear(w) /\ UNCHANGED questions
    \/ \E w \in Workers : us_publish(w) /\ UNCHANGED questions
    \/ \E w \in Workers : us_publish2(w) /\ UNCHANGED questions

SpecCommitRace == InitDeleteRace /\ [][NextCommitRace]_vars

\* =================================================================
\* Properties
\* =================================================================
\* the files the store assigns to domain d of user u
StoreFiles(u, d) == FileIdsOf(get_file_info_with_domain(DB, u, d))

\* the rows get_file_content reads for a set of files
RowsOf(db, ids) ==
    {[file_id |-> c.file_id, unit |-> c.unit] :
        c \in {x \in db.file_content : x.file_id \in ids}}

\* C1: whenever the cache of a user holds a selected domain D and a WorkingSet
\* (domain_content and domain_embeddings), the files whose content is in the
\* WorkingSet are exactly the files the store assigns to D for that user.
C1_MembershipInvariant ==
    \A u \in Users : \A d \in selected_domain[u] :
        (domain_content[u] # {} /\ domain_embeddings[u] # {}) =>
            /\ KeyFileIds(domain_content[u]) = StoreFiles(u, d)
            /\ KeyFileIds(domain_embeddings[u]) = StoreFiles(u, d)

\* C2: when update_selected_domain(U, D) returns with success, the cached
\* selected domain is D and both domain_content and domain_embeddings hold
\* content for exactly the files get_file_info_with_domain(U, D) returns.
C2_SelectPostcondition ==
    [][\A u \in Actors, d \in IssuedDomains, ok \in BOOLEAN :
          (select_domain(u, d, ok) /\ last'.success = 1) =>
              /\ selected_domain'[u] = {d}
              /\ KeyFileIds(domain_content'[u]) = StoreFiles(u, d)
              /\ KeyFileIds(domain_embeddings'[u]) = StoreFiles(u, d)]_vars

\* C3: selecting a domain that has no files leaves none of the user's cached
\* content or cached embeddings in the cache.
C3_EmptyDomainInvalidates ==
    [][\A u \in Actors, d \in IssuedDomains, ok \in BOOLEAN :
          (select_domain(u, d, ok) /\ StoreFiles(u, d) = {}) =>
              /\ domain_content'[u] = {}
              /\ domain_embeddings'[u] = {}]_vars

\* C4: when the domain has files and the content read returns nothing,
\* update_selected_domain publishes no WorkingSet and removes the previously
\* cached content and embeddings.
C4_NoPartialPublish ==
    [][\A u \in Actors, d \in IssuedDomains :
          (select_domain(u, d, FALSE) /\ StoreFiles(u, d) # {}) =>
              /\ domain_content'[u] = {}
              /\ domain_embeddings'[u] = {}]_vars

\* C5: after delete_domain succeeds for the domain that is the user's cached
\* selected domain and whose content is cached, the cache names no selected
\* domain and holds no content or embeddings.
C5_DeleteActiveResets ==
    [][\A u \in Actors, d \in IssuedDomains :
          (delete_domain(u, d) /\ last'.status = "success"
              /\ d \in selected_domain[u] /\ domain_content[u] # {}) =>
              /\ selected_domain'[u] = {}
              /\ domain_content'[u] = {}
              /\ domain_embeddings'[u] = {}]_vars

\* C6: when upload_files answers success, the WorkingSet of the user holds
\* every content row and every embedding of every file just committed and of
\* every file that was in the selected domain before.
C6_CommitVisible ==
    [][\A u \in Actors, ok \in BOOLEAN, fail \in Fails :
          (upload_files(u, ok, fail) /\ last'.status = "success") =>
              \E d \in selected_domain[u] :
                 LET new == (next_file_id .. (next_file_id' - 1))
                     all == StoreFiles(u, d) \cup new
                 IN  /\ new # {}
                     /\ selected_domain'[u] = {d}
                     /\ domain_content'[u] = {RowsOf(DB', all)}
                     /\ domain_embeddings'[u] = {RowsOf(DB', all)}
                     /\ \A f \in all : \E r \in RowsOf(DB', all) : r.file_id = f
                     /\ \A n \in StagedNames(u) : \E f \in new :
                           {r.unit : r \in {x \in RowsOf(DB', {f}) : TRUE}}
                               = 1 .. Sentences(n)]_vars

\* C6 witness: a commit has answered success and the WorkingSet holds the file
\* that was in the domain before together with a committed one.
C6_Witness ==
    /\ last.op = "upload_files" /\ last.status = "success"
    /\ \E u \in Actors :
          /\ DefaultDomain(u) \in KeyFileIds(domain_content[u])
          /\ \E f \in KeyFileIds(domain_content[u]) : f > Cardinality(Users)

\* C7: once a file has been removed with remove_file_upload and its domain is
\* selected again, the cache holds no content row and no embedding of a file
\* that was uploaded and removed.
C7_RemovalRoundTrip ==
    [][\A u \in Actors, d \in IssuedDomains :
          (select_domain(u, d, TRUE) /\ last.op = "remove_file_upload"
              /\ last.status = "success" /\ d \in selected_domain[u]) =>
              \A f \in KeyFileIds(domain_content'[u])
                         \cup KeyFileIds(domain_embeddings'[u]) :
                  f > Cardinality(Users) => f \in FileIdsOf(file_info)]_vars

\* C8: update_selected_domain is idempotent: on the same tables and with the
\* same outcome of the content read, a second call leaves the cache keys the
\* first call left and returns the file names, file ids and success flag the
\* first call returned.
\* In the state a select_domain request has left, a second call for the same
\* domain changes no cache key and returns the same success flag.
C8_SelectIdempotent ==
    /\ \A u \in Actors, d \in IssuedDomains, ok \in BOOLEAN :
          LET r1 == update_selected_domain(CacheOf(u), DB, u, d, ok)
              r2 == update_selected_domain(r1.cache, DB, u, d, ok)
          IN  r2 = r1
    /\ last.op = "select_domain" =>
          \A d \in selected_domain[last.user] :
             LET r == update_selected_domain(CacheOf(last.user), DB, last.user,
                                             d, last.success = 1)
             IN  r.cache = CacheOf(last.user) /\ r.success = last.success

\* C8 witness: a select of a created domain has published its WorkingSet.
C8_Witness ==
    /\ last.op = "select_domain" /\ last.success = 1
    /\ \E u \in Actors : \E d \in selected_domain[u] :
          /\ d > Cardinality(Users)
          /\ domain_content[u] # {}
\* C9: insert_file_batches rejects the batch of a commit, writing nothing,
\* exactly when the user's file count plus the batch size exceeds the tier
\* ceiling (free 10, premium 100), and otherwise inserts the whole batch.
C9_FileQuotaBoundary ==
    [][\A u \in Actors, ok \in BOOLEAN, fail \in Fails :
          (upload_files(u, ok, fail)
              /\ last'.status \in {"quota", "success", "not updated"}) =>
              LET count == Cardinality(FilesOfUser(u))
                  batch == Cardinality(StagedNames(u))
                  ceiling == IF user_info[u] = "free" THEN 10 ELSE 100
              IN  IF count + batch > ceiling
                  THEN /\ last'.status = "quota"
                       /\ UNCHANGED store
                  ELSE /\ last'.status # "quota"
                       /\ file_info \subseteq file_info'
                       /\ Cardinality(FilesOfUser(u)') = count + batch
                       /\ UNCHANGED <<user_info, domain_info>>]_vars

\* C9 witness: a free user with 9 files has had a commit rejected (a batch of
\* 2; a batch of 1 is accepted there).
C9_Witness ==
    /\ last.op = "upload_files" /\ last.status = "quota"
    /\ \E u \in Actors :
          user_info[u] = "free" /\ Cardinality(FilesOfUser(u)) = 9

\* C10: under any interleaving of concurrent upload_files requests of one
\* user, the number of files the store holds for a user never exceeds the tier
\* ceiling (10 free, 100 premium).
C10_FileQuotaRaceSafe ==
    \A u \in Users :
        Cardinality(FilesOfUser(u)) <= (IF user_info[u] = "free" THEN 10 ELSE 100)

\* the questions of user u admitted in the trailing 24 hours
AskedInDay(u) == AskedSince(u, IF now > Day THEN now - Day ELSE 0)

\* C11: under any interleaving of concurrent generate_answer requests of a
\* free user, the question_count summed over the sessions of the user in the
\* 24-hour window never exceeds 25.
C11_QuestionCountAtomic ==
    \A u \in Users :
        user_info[u] = "free" =>
            SumCounts(WindowSessions(session_info, u, now)) <= 25

\* C12: a free user who has asked 25 or more questions in the trailing 24
\* hours, over all sessions, is rejected and nothing is counted; one who has
\* asked 24 is admitted and has then asked 25; a premium user is never
\* rejected for the question count.
C12_QuestionQuotaBoundary ==
    [][\A u \in Actors, s \in Sessions :
          (generate_answer(u, s, TRUE) /\ selected_domain[u] # {}) =>
              IF user_info[u] = "free"
              THEN /\ AskedInDay(u) >= 25 =>
                         last'.status = "quota" /\ asked' = asked
                   /\ AskedInDay(u) = 24 =>
                         last'.status = "admitted" /\ AskedInDay(u)' = 25
              ELSE last'.status # "quota"]_vars

\* no user owns more domains than the tier allows
DomainCountBounded ==
    \A u \in Users :
        Cardinality(DomainsOfUser(u))
            <= (IF user_info[u] = "free" THEN 3 ELSE 10)

\* C13: create_domain rejects, inserting nothing, when the domain count of the
\* user meets the tier ceiling (free 3, premium 10), and otherwise inserts
\* exactly one domain, with the id issued for the request; so a free user
\* never owns more than 3 domains and a premium user never more than 10.
C13_DomainQuotaCeiling ==
    /\ []DomainCountBounded
    /\ [][\A u \in Actors, name \in DomainNames :
            create_domain(u, name) =>
               IF Cardinality(DomainsOfUser(u))
                     >= (IF user_info[u] = "free" THEN 3 ELSE 10)
               THEN /\ last'.status = "rejected"
                    /\ UNCHANGED store
               ELSE /\ last'.status = "success"
                    /\ domain_info' = domain_info \cup
                          {[domain_id |-> next_domain_id, user_id |-> u,
                            domain_name |-> name, domain_type |-> 1]}
                    /\ next_domain_id \notin
                          {d.domain_id : d \in domain_info}
                    /\ UNCHANGED <<user_info, file_info, file_content>>]_vars

\* C13 witness: a free user who owns 3 domains, one of them created in this
\* behaviour, has had a further creation rejected.
C13_Witness ==
    /\ last.op = "create_domain" /\ last.status = "rejected"
    /\ \E u \in Actors :
          /\ user_info[u] = "free"
          /\ Cardinality(DomainsOfUser(u)) = 3
          /\ \E d \in DomainsOfUser(u) :
                d.domain_id \in IssuedDomains /\ d.domain_type = 1

\* C14: when upload_files is rejected because the batch would exceed the file
\* ceiling, every staged entry of the user is still staged afterwards and no
\* row has been written to the store.
C14_RejectionConsumesNothing ==
    [][\A u \in Actors, ok \in BOOLEAN, fail \in Fails :
          (upload_files(u, ok, fail) /\ last'.status = "quota") =>
              /\ upload'[u] = upload[u]
              /\ UNCHANGED store]_vars

\* the file_info rows and the content rows a step has added
NewFiles == file_info' \ file_info
NewContent == file_content' \ file_content

\* C15: a successful upload_files creates exactly one file per staged entry of
\* the user, each with a fresh file id of its own, all in the selected domain
\* of the user, each with as many content rows as its entry has sentences;
\* afterwards none of the entries is staged.
C15_CommitConsumesStaging ==
    [][\A u \in Actors, ok \in BOOLEAN, fail \in Fails :
          (upload_files(u, ok, fail) /\ last'.status = "success") =>
              \E d \in selected_domain[u] :
                 /\ StagedNames(u) # {}
                 /\ Cardinality(NewFiles) = Cardinality(StagedNames(u))
                 /\ Cardinality(FileIdsOf(NewFiles)) = Cardinality(NewFiles)
                 /\ FileIdsOf(NewFiles) \cap FileIdsOf(file_info) = {}
                 /\ FileIdsOf(NewFiles) \cap FileIdsOf(file_content) = {}
                 /\ \A f \in NewFiles : f.user_id = u /\ f.domain_id = d
                 /\ \A n \in StagedNames(u) :
                       \E f \in NewFiles :
                          /\ f.file_name = n
                          /\ \A g \in NewFiles : g.file_name = n => g = f
                          /\ {c.unit : c \in {x \in NewContent :
                                                x.file_id = f.file_id}}
                                = 1 .. (CHOOSE e \in upload[u][n] : TRUE)
                 /\ FileIdsOf(NewContent) \subseteq FileIdsOf(NewFiles)
                 /\ file_info \subseteq file_info'
                 /\ file_content \subseteq file_content'
                 /\ \A n \in FileNames : upload'[u][n] = {}]_vars

\* C15 witness: a commit has answered success, nothing is staged any more, and
\* the user has files "a.pdf" and "b.pdf" with consecutive fresh ids.
C15_Witness ==
    /\ last.op = "upload_files" /\ last.status = "success"
    /\ \E u \in Actors :
          /\ StagedNames(u) = {}
          /\ \E f \in FilesOfUser(u), g \in FilesOfUser(u) :
                /\ f.file_name = "a.pdf" /\ g.file_name = "b.pdf"
                /\ g.file_id = f.file_id + 1
                /\ g.file_id = next_file_id - 1

\* every file_info row has content rows and every content row a file_info row
NoOrphans ==
    FileIdsOf(file_info) = FileIdsOf(file_content)

\* C16: however upload_files ends (success, quota rejection, a failure of
\* the file_info insert or of the file_content insert), the store holds every
\* file_info row and every file_content row of the batch or none of them; a
\* file without its content, or content without its file, is never in the
\* store.
C16_BatchAllOrNothing ==
    /\ []NoOrphans
    /\ [][\A u \in Actors, ok \in BOOLEAN, fail \in Fails :
            upload_files(u, ok, fail) =>
               LET ids == FreshIds(StagedNames(u))
                   all == \E d \in selected_domain[u] :
                            /\ file_info' = file_info \cup
                                  FileInfoBatch(u, d, ids)
                            /\ file_content' = file_content \cup
                                  FileContentBatch(StagedEntries(u), ids)
                            /\ NewFiles # {} /\ NewContent # {}
               IN  /\ UNCHANGED <<user_info, domain_info>>
                   /\ IF last'.status \in {"success", "not updated"}
                      THEN all
                      ELSE UNCHANGED <<file_info, file_content>>]_vars

\* C16 witness: a commit has failed in an insert, and the store holds no file
\* of the failed batch.
C16_Witness ==
    /\ last.op = "upload_files" /\ last.status = "error"
    /\ NoOrphans
    /\ \A f \in file_info : f.file_id < next_file_id
    /\ \E u \in Actors : StagedNames(u) = {}

\* the domain_info rows with id d, and the files and content rows under them
DomainRows(d) == {x \in domain_info : x.domain_id = d}
DomainFiles(d) == {f \in file_info : f.domain_id = d}
DomainContent(d) == {c \in file_content : c.file_id \in FileIdsOf(DomainFiles(d))}

\* C17: delete_domain of a default domain (domain_type 0) answers with the
\* sentinel -1 and leaves the domain row, its file_info rows and their
\* file_content rows as they were.
C17_DefaultDomainProtected ==
    [][\A u \in Actors, d \in IssuedDomains :
          (delete_domain(u, d) /\ \E x \in DomainRows(d) : x.domain_type = 0) =>
              /\ last'.success = -1
              /\ last'.status = "rejected"
              /\ UNCHANGED store]_vars

\* C17 witness: the deletion of a default domain has been refused and the
\* domain still holds its guide and the content of the guide.
C17_Witness ==
    /\ last.op = "delete_domain" /\ last.success = -1
    /\ \E u \in Actors :
          /\ DomainRows(DefaultDomain(u)) # {}
          /\ GuideFile(u) \in DomainFiles(DefaultDomain(u))
          /\ DomainContent(DefaultDomain(u)) # {}

\* C18: delete_domain of an existing domain that is not a default domain
\* answers 1 (success); afterwards the domain row, every file_info row of the
\* domain and every file_content row of those files are gone, and the rows of
\* every other domain are as they were.
C18_DeleteCascades ==
    [][\A u \in Actors, d \in IssuedDomains :
          (delete_domain(u, d) /\ \E x \in DomainRows(d) : x.domain_type # 0) =>
              /\ last'.success = 1
              /\ last'.status = "success"
              /\ domain_info' = domain_info \ DomainRows(d)
              /\ file_info' = file_info \ DomainFiles(d)
              /\ file_content' = file_content \ DomainContent(d)
              /\ \A e \in IssuedDomains \ {d} :
                    /\ DomainRows(e)' = DomainRows(e)
                    /\ DomainFiles(e)' = DomainFiles(e)
                    /\ DomainContent(e)' = DomainContent(e)
              /\ UNCHANGED user_info]_vars

\* C18 witness: a created domain has been deleted together with the file it
\* held (the cache still shows that file under the deleted domain).
C18_Witness ==
    /\ last.op = "delete_domain" /\ last.status = "success"
    /\ \E u \in Actors : \E d \in selected_domain[u] :
          /\ DomainRows(d) = {}
          /\ \E f \in KeyFileIds(domain_content[u]) :
                /\ f \notin FileIdsOf(file_info)
                /\ f \notin FileIdsOf(file_content)

\* C19: delete_domain answers every domain id with one of -1 (default
\* domain), 0 (nothing matched, as for an id that names no domain) and 1
\* (deleted) and never raises; the endpoint turns -1 and 0 into a rejection
\* and 1 into success.
C19_DeleteThreeValued ==
    [][\A u \in Actors, d \in IssuedDomains :
          delete_domain(u, d) =>
              /\ last'.status # "error"
              /\ last'.success \in {-1, 0, 1}
              /\ DomainRows(d) = {} => last'.success = 0
              /\ last'.status = "success" <=> last'.success = 1
              /\ last'.status = "rejected" <=> last'.success \in {-1, 0}]_vars

\* C20: every user owns the default domain (domain_type 0) created for the
\* user, whatever create_domain, delete_domain and rename_domain requests
\* have been served.
C20_DefaultDomainKept ==
    \A u \in Users :
        \E x \in DomainsOfUser(u) :
            x.domain_id = DefaultDomain(u) /\ x.domain_type = 0

\* C20 witness: domains have been deleted until the user owns the default
\* domain alone.
C20_Witness ==
    /\ last.op = "delete_domain" /\ last.status = "success"
    /\ \E u \in Actors :
          /\ Cardinality(DomainsOfUser(u)) = 1
          /\ \A x \in DomainsOfUser(u) : x.domain_type = 0

C22_QueryReadsOneWorkingSet ==
    \A w \in Workers :
        pc[w] = "qa_search" => req[w].content = req[w].embeddings

\* C23: when the update_selected_domain calls that ran together for one user
\* and one domain over the same file set have all returned, the cache of the
\* user is the state a single call for that domain leaves, whatever the
\* interleaving of their cache writes.
C23_ConcurrentSelectsAgree ==
    (\A w \in Workers : pc[w] = "idle") /\ last.op = "select_domain" =>
        \A d \in selected_domain[last.user] :
            CacheOf(last.user) =
                update_selected_domain(CacheOf(last.user), DB, last.user, d,
                                       TRUE).cache

\* every call for the default domain has returned and its WorkingSet is
\* published
C23_Witness ==
    /\ \A w \in Workers : pc[w] = "idle"
    /\ last.op = "select_domain"
    /\ selected_domain["u1"] = {DefaultDomain("u1")}
    /\ domain_content["u1"] # {}
    /\ domain_embeddings["u1"] = domain_content["u1"]

\* the files of the domain user u has selected, as the store holds them
SelectedFiles(u) ==
    UNION {get_file_info_with_domain(DB, u, d) : d \in selected_domain[u]}

\* C24: whenever generate_answer calls the search engine, the content and
\* the embeddings it passes are the WorkingSet of the domain the user has
\* selected, and the file_ids it passes are file ids of that WorkingSet.
C24_QueryOverConsistentWorkingSet ==
    \A w \in Workers :
        pc[w] = "qa_search" =>
            /\ req[w].content =
                  get_file_content(DB, FileIdsOf(SelectedFiles(req[w].user)),
                                   TRUE).content
            /\ req[w].embeddings = req[w].content
            /\ req[w].file_ids \subseteq
                  UNION {FileIdsOf(rows) : rows \in req[w].content}

\* C25: a generate_answer that finds the WorkingSet keys of its user absent
\* while the selected domain has files in the store leaves them rebuilt.
C25_MissRepairedByQuery ==
    [][\A w \in Workers :
          qa_search(w) /\ SelectedFiles(req[w].user) # {} =>
              /\ domain_content'[req[w].user] # {}
              /\ domain_embeddings'[req[w].user] # {}]_vars

\* C26: a call of update_selected_domain whose read of the store fails, and
\* an upload_files whose durable write fails, report the failure and leave
\* the cache (selected domain, WorkingSet, staged entries) and the store as
\* they were.
C26_StoreFailureLeavesNoTrace ==
    [][/\ \A u \in Users : \A d \in KnownDomains(u) :
            select_domain(u, d, FALSE) /\ SelectedFiles(u)' # {} =>
                last'.success = 0 /\ UNCHANGED <<store, cache>>
       /\ \A u \in Users, readok \in BOOLEAN, fail \in Fails \ {"none"} :
            upload_files(u, readok, fail) /\ last'.status = "error" =>
                UNCHANGED <<store, cache>>]_vars

\* C27 (domain quota): a create_domain rejected at the ceiling answers with
\* the number of domains the user owns and with the ceiling the check
\* applied.
C27_RejectionReportsCountAndCeiling ==
    [][\A u \in Users, name \in DomainNames :
          create_domain(u, name) /\ last'.status = "rejected" =>
              LET res == db_create_domain(DB, u, name, next_domain_id, 1)
              IN  /\ res.message.count = {Cardinality(DomainsOfUser(u))}
                  /\ res.message.ceiling = {DomainCeiling(user_info[u])}]_vars

\* C28: a store_file (store_drive_file, store_url) that receives empty bytes
\* or extracts no sentence is answered with a rejection, creates or
\* overwrites no staged entry, and leaves the store and the WorkingSet as
\* they were.
C28_EmptyExtractionStagesNothing ==
    [][\A u \in Users, file \in Revisions :
          store_file(u, file) /\ file.sentences = 0 =>
              /\ last'.status = "rejected"
              /\ UNCHANGED <<store, cache>>]_vars

\* an upload without text was rejected while an entry was staged under each
\* file name, so also under the name it came with
C28_Witness ==
    /\ last.op = "store_file"
    /\ last.status = "rejected"
    /\ \A n \in FileNames : upload[last.user][n] # {}

\* C29: a staged upload is one entry per (user, file name); a file row comes
\* into the store only by an upload_files of the user who staged an entry
\* under that name, and for an entry staged at that moment; and every staged
\* entry is eventually gone from the cache, committed or expired.
C29_OneEntryPerKey ==
    \A u \in Users, n \in FileNames : Cardinality(upload[u][n]) <= 1

C29_UncommittedNeverDurable ==
    /\ []C29_OneEntryPerKey
    /\ [][/\ \A u \in Users, file \in Revisions :
               store_file(u, file) /\ file.sentences > 0 =>
                   upload' = [upload EXCEPT ![u][file.name] = {file.sentences}]
          /\ \A f \in file_info' \ file_info :
               /\ last'.op = "upload_files"
               /\ last'.user = f.user_id
               /\ upload[f.user_id][f.file_name] # {}]_vars
    /\ \A u \in Users, n \in FileNames :
          (upload[u][n] # {}) ~> (upload[u][n] = {})

\* the latest request staged an upload, nothing is staged for that user any
\* more, and none of the uploads became a file: the entry has expired
C29_Witness ==
    /\ last.op = "store_file"
    /\ last.status = "success"
    /\ \A n \in FileNames : upload[last.user][n] = {}
    /\ ~\E f \in file_info :
          f.user_id = last.user /\ f.file_name \in FileNames

\* C30: every content row in the store was encrypted with the id of the
\* file_info row it is stored under as associated data, whether it was
\* written by upload_files or by insert_user_guide.
C30_CiphertextBoundToOwnFile ==
    \A c \in file_content :
        /\ c.auth_data = c.file_id
        /\ \E f \in file_info : f.file_id = c.file_id

\* one upload_files has committed two files, and each has content rows
C30_Witness ==
    /\ last.op = "upload_files" /\ last.status = "success"
    /\ \E c \in file_content, e \in file_content :
          /\ c.file_id = next_file_id - 1
          /\ e.file_id = next_file_id - 2
          /\ issued = MaxFiles

\* the rows a cache key of user u holds
CachedRows(u) == UNION (domain_content[u] \cup domain_embeddings[u])

\* C31: the WorkingSet published for a user holds content of that user's
\* files only, whatever domain id the select_domain request named, and a
\* request of one user changes no cache key of another user.
C31_OwnContentOnly ==
    \A u \in Users : \A c \in CachedRows(u) : \A f \in file_info :
        f.file_id = c.file_id => f.user_id = u

C31_NoCrossUserWorkingSet ==
    /\ []C31_OwnContentOnly
    /\ [][\A v \in Users :
            v # last'.user =>
                /\ CacheOf(v)' = CacheOf(v)
                /\ upload'[v] = upload[v]]_vars

\* u1 has selected the default domain of u2, which holds u2's guide
C31_Witness ==
    /\ last.op = "select_domain" /\ last.user = "u1"
    /\ selected_domain["u1"] = {DefaultDomain("u2")}
    /\ \E f \in file_info :
          f.domain_id = DefaultDomain("u2") /\ f.user_id = "u2"
    /\ \E c \in file_content : c.file_id = DefaultDomain("u2")
    /\ domain_content["u2"] # {}

\* the domain rows, file rows and content rows of the files of user v
OwnedRows(v) ==
    <<{d \in domain_info : d.user_id = v},
      {f \in file_info : f.user_id = v},
      {c \in file_content :
          \E f \in file_info : f.user_id = v /\ f.file_id = c.file_id}>>

\* C32: a remove_file_upload, delete_domain or rename_domain request of one
\* user changes no domain, file or content row owned by another user.
C32_DestructiveOpsRespectOwnership ==
    [][\A v \in Users : v # last'.user => OwnedRows(v)' = OwnedRows(v)]_vars

\* the WorkingSet key the store gives for domain d of user u
WorkingSetOf(u, d) ==
    get_file_content(DB, FileIdsOf(get_file_info_with_domain(DB, u, d)),
                     TRUE).content

\* C33: when two concurrent select_domain requests of one user for two
\* domains have both returned, the selected domain is one of the two and the
\* cached content and embeddings are those of that domain.
C33_SwitchEndsCoherent ==
    (\A w \in Workers : pc[w] = "idle") /\ last.op = "select_domain" =>
        \E d \in KnownDomains(last.user) :
            /\ selected_domain[last.user] = {d}
            /\ domain_content[last.user] = WorkingSetOf(last.user, d)
            /\ domain_embeddings[last.user] = WorkingSetOf(last.user, d)

\* the files user u has committed under a name since the initial state
CommittedSinceInit(u, name) ==
    {f \in file_info : f.user_id = u /\ f.file_name = name /\ f.file_id >= 4}

\* C34: the one staged upload of u1 becomes at most one file, however two
\* concurrent upload_files requests of u1 interleave.
C34_StagedEntryCommittedOnce ==
    \A name \in FileNames : Cardinality(CommittedSinceInit("u1", name)) <= 1

\* C35: a remove_file_upload request leaves the selected domain of its user
\* as it was, whatever domain id its body names, and republishes the
\* WorkingSet of that domain.
C35_RemoveKeepsSelectedDomain ==
    [][\A u \in Users : \A f \in KnownFiles(u), d \in KnownDomains(u) :
          remove_file_upload(u, f, d) =>
              /\ selected_domain'[u] = selected_domain[u]
              /\ last'.status = "success" =>
                    \A x \in selected_domain[u] :
                        domain_content'[u] = WorkingSetOf(u, x)']_vars

\* C36: the question_count of the sessions of a user counts the questions of
\* the user that were admitted, and nothing else: no page visit and no
\* request rejected before the quota check changes it.
C36_CountIsAdmittedQuestions ==
    \A u \in Users : TotalCount(u) = AskedSince(u, 0)

\* C37: a question rejected for the daily ceiling leaves every session row
\* the store held as it was; the only row the rejected call may add is the
\* new session of the asking user, with question_count 0.
C37_RejectionKeepsCounters ==
    [][last'.op = "generate_answer" /\ last'.status = "quota"
         => /\ session_info \subseteq session_info'
            /\ Cardinality(session_info' \ session_info) <= 1
            /\ \A r \in session_info' \ session_info :
                  /\ r.user_id = last'.user
                  /\ r.question_count = 0
                  /\ r.created_at = now]_vars

\* a question was rejected for the ceiling in a session the store did not
\* hold before: the session row is there with question_count 0
C37_Witness ==
    /\ last.op = "generate_answer"
    /\ last.status = "quota"
    /\ \E r \in session_info :
          /\ r.user_id = last.user
          /\ r.question_count = 0
          /\ r.created_at = now
    /\ \E r \in session_info :
          r.user_id = last.user /\ r.question_count >= FreeQuestionLimit

\* C38: upsert_session_info always decides: whatever the age of the session
\* row, a question that reaches the quota check is answered by an admission
\* or a quota rejection, never by a failure for want of a daily-count row.
C38_UpsertAlwaysDecides ==
    /\ last.op = "generate_answer" => last.status # "error"
    /\ \A u \in Users, s \in Sessions :
          ~upsert_session_info(session_info, user_info, u, s, now).raised

\* the cached selected domain of user u is a domain the store holds for u
HasTarget(u) ==
    \E d \in selected_domain[u] :
       \E x \in domain_info : x.user_id = u /\ x.domain_id = d

\* C39: a commit with no valid target or nothing to commit has no effect:
\* when upload_files runs while the user has no selected domain, or the
\* selected domain is not a domain the store holds for that user, or nothing
\* is staged, the answer is one of the two 400 rejections, no staged entry is
\* removed, the store is not written and the WorkingSet is unchanged.
C39_CommitWithoutTargetHasNoEffect ==
    [][\A u \in Users :
         upload_files(u, TRUE, "none")
            /\ (~HasTarget(u) \/ StagedNames(u) = {})
         => /\ last'.op = "upload_files"
            /\ last'.status \in {"invalid domain", "no files"}
            /\ upload' = upload
            /\ UNCHANGED store
            /\ selected_domain' = selected_domain
            /\ domain_content' = domain_content
            /\ domain_embeddings' = domain_embeddings]_vars

\* a commit was rejected for a selected domain that has been deleted, and
\* the staged entries of the user are still there
C39_Witness ==
    /\ last.op = "upload_files"
    /\ last.status = "invalid domain"
    /\ selected_domain[last.user] = {3}
    /\ ~HasTarget(last.user)
    /\ StagedNames(last.user) # {}
====
